---------------------------- MODULE Spec2Model ----------------------------
(***************************************************************************)
(* NexAI: the /api/chat route handler (POST) and the Mock Responder        *)
(* (getMockResponse) it falls back to; lib/cache (normalizeCacheKey,       *)
(* getCache, setCache); the /api/upload-proxy route handler.               *)
(*                                                                         *)
(* Spec and FairSpec follow one /api/chat request from the moment its body *)
(* is read to the moment NextResponse.json(...) is returned; SeqSpec lets  *)
(* a second request follow, ConcSpec has two requests in flight together.  *)
(* A handler runs synchronously between its awaits; every await is a place *)
(* where the model waits for an event of the environment (the upstream's   *)
(* answer, the abort timer, the mock delay, the store's answer).           *)
(* NormSpec, CacheSpec and MockSpec call the functions of lib/cache and    *)
(* lib/mockResponses on their own; UploadSpec follows one upload.          *)
(***************************************************************************)
EXTENDS Integers, Sequences, FiniteSets, TLC

VARIABLES
    env,            \* process.env: LAMBDA_FUNCTION_URL set or not
    upstream,       \* how the endpoint behaves: "answering" | "silent"
    now,            \* the clock Date.now() reads
    pc,             \* where the handler is: idle, fetch, body, mock, done
    req,            \* what request.json() gave
    fetchBody,      \* the JSON body handed to fetch()
    timeoutId,      \* the abort timer: none, armed, cleared, fired
    lambdaError,    \* the name of the error the inner catch caught
    res,            \* the NextResponse returned
    lambdaData,     \* what lambdaResponse.json() gave
    outcome,        \* how the upstream exchange ended (history)
    fetchCalls,     \* number of fetch() calls made
    mockCalls,      \* number of getMockResponse() calls made
    \* lib/cache.ts, normalizeCacheKey
    nkInput,        \* the text a first caller passes
    nkKey,          \* normalizeCacheKey(nkInput), or NoKey before the call
    nkKeyAgain,     \* normalizeCacheKey(nkKey)
    nkVariant,      \* a variation of nkInput a second caller passes
    nkVariantKey,   \* normalizeCacheKey(nkVariant)
    \* lib/cache.ts, getCache and setCache
    cacheEnv,       \* process.env: UPSTASH_REDIS_REST_URL and ..._TOKEN
    redisClient,    \* the module's client: "null" or "client"
    kv,             \* the Redis store: key -> entry (value, expiry) or NoEntry
    cacheNow,       \* the store's clock, in seconds
    cacheTicks,     \* how often the clock has advanced
    cacheCall,      \* the last getCache/setCache call and how it ended
    \* /api/chat, one request after another
    prev,           \* the exchange before the current one, or NoExchange
    \* lib/mockResponses, getMockResponse called on its own
    mkPrompt,       \* the prompt passed
    mkResult,       \* what the promise resolved with, or NoKey before that
    \* /api/chat, requests in flight together
    handlers,       \* per request: the locals of its POST invocation
    \* /api/upload-proxy
    upPc,           \* where the handler is: idle, buffer, send, done
    upForm,         \* what request.formData() gave
    upKey,          \* the s3Key built for the object
    upRes,          \* the NextResponse returned
    s3Puts,         \* number of PutObject commands sent
    s3Failed,       \* the PutObject command was rejected
    bucket,         \* the keys of the objects in the bucket
    \* /api/analyze
    anEndpoint,     \* process.env.NEXT_PUBLIC_ANALYZE_ENDPOINT
    anPc,           \* where the handler is: idle, fetch, errtext, body, done
    anReq,          \* what request.json() gave
    anData,         \* what response.json() gave
    anRes,          \* the NextResponse returned
    anFetches,      \* number of fetch() calls made
    anOutcome,      \* how the exchange with the endpoint ended (history)
    \* the chat interface (ChatInterface, ChatProvider)
    inputValue,     \* the text of the input field
    messages,       \* the messages shown, oldest first
    isTyping,       \* the typing indicator
    requests,       \* the /api/chat requests outstanding, oldest first
    sends,          \* number of /api/chat requests sent (history)
    replies,        \* number of messages added on completing a request (history)
    completion,     \* how the last request completed (history)
    uiData,         \* the body the last request read with response.json() (history)
    \* lib/cache.ts: the history of the Redis client
    redisAttempts,  \* number of times `new Redis(...)` was evaluated (history)
    redisBuilt,     \* number of clients `new Redis(...)` returned (history)
    clientId,       \* which client redisClient is: 0 for null, else its number
    clientUsed,     \* which client the last call used: 0 for none
    \* /api/chat: the times of one request, in milliseconds
    timeoutEnv,     \* process.env.LAMBDA_TIMEOUT_MS
    dlPc,           \* where the request is: idle, fetch, mock, done
    lambdaTimeoutMs, \* the delay the abort timer was given
    elapsed,        \* milliseconds since POST was called
    \* the upload routes together: /api/upload-proxy, /api/upload-url, /api/upload
    uploads,        \* the objects written and the presigned URLs issued, oldest first (history)
    routeRes        \* the NextResponse of the last /api/upload-url or /api/upload call

chatVars == <<env, upstream, now, pc, req, fetchBody, timeoutId, lambdaError,
              res, lambdaData, outcome, fetchCalls, mockCalls>>

normVars == <<nkInput, nkKey, nkKeyAgain, nkVariant, nkVariantKey>>

cacheVars == <<cacheEnv, redisClient, kv, cacheNow, cacheTicks, cacheCall>>

seqVars == <<prev>>

mockVars == <<mkPrompt, mkResult>>

concVars == <<handlers>>

uploadVars == <<upPc, upForm, upKey, upRes, s3Puts, s3Failed, bucket>>

analyzeVars == <<anEndpoint, anPc, anReq, anData, anRes, anFetches,
                 anOutcome>>

uiVars == <<inputValue, messages, isTyping, requests, sends, replies,
            completion, uiData>>

clientVars == <<redisAttempts, redisBuilt, clientId, clientUsed>>

deadlineVars == <<timeoutEnv, dlPc, lambdaTimeoutMs, elapsed>>

routesVars == <<uploads, routeRes>>

vars == <<chatVars, normVars, cacheVars, seqVars, mockVars, concVars,
          uploadVars, analyzeVars, uiVars, clientVars, deadlineVars,
          routesVars>>

---------------------------------------------------------------------------
(* Bounds of the model.                                                    *)

\* Date.now() takes values in 0..MaxClock.
MaxClock == 1

\* The texts handed to normalizeCacheKey have at most MaxKeyLen characters.
MaxKeyLen == 3

\* The store's clock advances at most MaxCacheTicks times.
MaxCacheTicks == 3

\* The prompts handed to getMockResponse have at most MaxPromptWords words.
MaxPromptWords == 2

---------------------------------------------------------------------------
(* Strings.  A string is a sequence of runs [ch, n]: the piece ch repeated *)
(* n times (n >= 1, ch not empty).  A piece is one character in every text *)
(* a caller types; a literal of the program (a canned answer, a template's *)
(* prefix) is kept as one piece.  "" is the empty sequence.                *)

Literal(s) == IF s = "" THEN <<>> ELSE <<[ch |-> s, n |-> 1]>>

Chars(cs) == [i \in DOMAIN cs |-> [ch |-> cs[i], n |-> 1]]

Repeat(c, k) == IF k = 0 THEN <<>> ELSE <<[ch |-> c, n |-> k]>>

\* s.length
RECURSIVE StrLen(_)
StrLen(s) ==
    IF s = <<>> THEN 0 ELSE Len(Head(s).ch) * Head(s).n + StrLen(Tail(s))

\* what String.prototype.trim() strips
IsSpace(c) == c \in {" ", "\t", "\n", "\r"}

RECURSIVE TrimStart(_)
TrimStart(s) ==
    IF s = <<>> THEN <<>>
    ELSE IF IsSpace(Head(s).ch) THEN TrimStart(Tail(s)) ELSE s

RECURSIVE TrimEnd(_)
TrimEnd(s) ==
    IF s = <<>> THEN <<>>
    ELSE IF IsSpace(s[Len(s)].ch) THEN TrimEnd(SubSeq(s, 1, Len(s) - 1)) ELSE s

\* s.trim()
Trim(s) == TrimEnd(TrimStart(s))

LowerOf ==
    [c \in {"A", "B", "C", "D", "E", "F", "G", "H", "I", "J", "K", "L", "M",
            "N", "O", "P", "Q", "R", "S", "T", "U", "V", "W", "X", "Y", "Z"} |->
        CASE c = "A" -> "a" [] c = "B" -> "b" [] c = "C" -> "c" [] c = "D" -> "d"
          [] c = "E" -> "e" [] c = "F" -> "f" [] c = "G" -> "g" [] c = "H" -> "h"
          [] c = "I" -> "i" [] c = "J" -> "j" [] c = "K" -> "k" [] c = "L" -> "l"
          [] c = "M" -> "m" [] c = "N" -> "n" [] c = "O" -> "o" [] c = "P" -> "p"
          [] c = "Q" -> "q" [] c = "R" -> "r" [] c = "S" -> "s" [] c = "T" -> "t"
          [] c = "U" -> "u" [] c = "V" -> "v" [] c = "W" -> "w" [] c = "X" -> "x"
          [] c = "Y" -> "y" [] c = "Z" -> "z"]

\* s.toLowerCase(), on the characters a caller types
ToLowerCase(s) ==
    [i \in DOMAIN s |->
        [ch |-> IF s[i].ch \in DOMAIN LowerOf THEN LowerOf[s[i].ch] ELSE s[i].ch,
         n  |-> s[i].n]]

\* the pieces of s, one by one
RECURSIVE Expand(_)
Expand(s) ==
    IF s = <<>> THEN <<>>
    ELSE [i \in 1..Head(s).n |-> Head(s).ch] \o Expand(Tail(s))

\* s with every run longer than k cut to k pieces
Clip(s, k) == [i \in DOMAIN s |-> [ch |-> s[i].ch, n |-> IF s[i].n > k THEN k ELSE s[i].n]]

\* s.includes(keyword), keyword given character by character.  The windows
\* of Len(keyword) pieces are compared one by one; a run longer than the
\* keyword is first cut to the keyword's length, which leaves the set of
\* windows as it is.
Includes(s, keyword) ==
    \E t \in {Expand(Clip(s, Len(keyword)))} :
        \E i \in 1..(Len(t) - Len(keyword) + 1) :
            SubSeq(t, i, i + Len(keyword) - 1) = keyword

---------------------------------------------------------------------------
(* JSON values as the handler sees them after request.json() or            *)
(* lambdaResponse.json().  A number is an integer; where the code works    *)
(* with one decimal (temperature) the integer counts tenths.               *)

JUndef == [type |-> "undefined", num |-> 0, str |-> <<>>, items |-> <<>>]

JNull == [type |-> "null", num |-> 0, str |-> <<>>, items |-> <<>>]

JNum(k) == [type |-> "number", num |-> k, str |-> <<>>, items |-> <<>>]

JStr(s) == [type |-> "string", num |-> 0, str |-> s, items |-> <<>>]

JObj(xs) == [type |-> "object", num |-> 0, str |-> <<>>, items |-> xs]

\* JavaScript truthiness: what `!v` and `v || w` test
Truthy(v) ==
    CASE v.type = "undefined" -> FALSE
      [] v.type = "null"      -> FALSE
      [] v.type = "number"    -> v.num # 0
      [] v.type = "string"    -> v.str # <<>>
      [] OTHER                -> TRUE

\* v || w
OrElse(v, w) == IF Truthy(v) THEN v ELSE w

Min(a, b) == IF a <= b THEN a ELSE b

Max(a, b) == IF a >= b THEN a ELSE b

---------------------------------------------------------------------------
(* Constants of the chat route.                                            *)

\* message.length > 10000
MaxMessageLength == 10000

\* settings?.temperature || 0.7, in tenths
DefaultTemperature == 7

\* Math.min(1, ...), in tenths
MaxTemperature == 10

\* Math.max(0, ...), in tenths
MinTemperature == 0

\* settings?.maxTokens || 1000
DefaultMaxTokens == 1000

\* Math.min(4000, ...)
MaxMaxTokens == 4000

\* Math.max(1, ...)
MinMaxTokens == 1

\* genericResponses.length
NumGenericResponses == 3

---------------------------------------------------------------------------
(* The Mock Responder.                                                     *)

\* Object.entries(responses): the keywords in insertion order, each with
\* its canned text (kept as one literal, named by its heading).
responses ==
    << [keyword  |-> <<"c", "o", "u", "r", "s", "e", "s">>,
        response |-> Literal("**Available Courses** ...")],
       [keyword  |-> <<"r", "e", "c", "e", "n", "t", " ", "j", "o", "b", "s">>,
        response |-> Literal("**Recent Job Opportunities** ...")],
       [keyword  |-> <<"t", "e", "r", "m", "s">>,
        response |-> Literal("**Technical Terms & Concepts** ...")],
       [keyword  |-> <<"p", "r", "o", "j", "e", "c", "t", " ",
                       "p", "l", "a", "n", "n", "i", "n", "g">>,
        response |-> Literal("**Project Planning & Management** ...")],
       [keyword  |-> <<"l", "e", "a", "r", "n", "i", "n", "g", " ",
                       "r", "e", "s", "o", "u", "r", "c", "e", "s">>,
        response |-> Literal("**Learning Resources & Tutorials** ...")] >>

\* the three generic templates, each around the prompt
genericResponses(prompt) ==
    << Literal("Thank you for your question: \"") \o prompt
         \o Literal("\". I'm NexAI, your intelligent assistant. ..."),
       Literal("I understand you're asking about \"") \o prompt
         \o Literal("\". NexAI is here to assist you ..."),
       Literal("That's an interesting query about \"") \o prompt
         \o Literal("\". NexAI specializes in ...") >>

\* for (const [keyword, response] of Object.entries(responses)), from entry
\* i on: the text of the first entry whose keyword the prompt includes,
\* else the generic text
RECURSIVE FindMatchingResponse(_, _, _)
FindMatchingResponse(lowerPrompt, i, generic) ==
    IF i > Len(responses) THEN generic
    ELSE IF Includes(lowerPrompt, responses[i].keyword) THEN responses[i].response
    ELSE FindMatchingResponse(lowerPrompt, i + 1, generic)

\* faulty variant: the prompt is searched as typed, not lowercased
getMockResponseCaseSensitive(prompt, r) ==
    FindMatchingResponse(prompt, 1, genericResponses(prompt)[r + 1])

\* faulty variant: the templates embed lowerPrompt
getMockResponseEmbedsLowerPrompt(prompt, r) ==
    FindMatchingResponse(ToLowerCase(prompt), 1,
                         genericResponses(ToLowerCase(prompt))[r + 1])

\* getMockResponse(prompt) once its delay is over; r is
\* Math.floor(Math.random() * genericResponses.length)
getMockResponse(prompt, r) ==
    FindMatchingResponse(ToLowerCase(prompt), 1, genericResponses(prompt)[r + 1])

---------------------------------------------------------------------------
(* The pure parts of POST.                                                 *)

\* settings?.field
SettingsGet(settings, field) ==
    IF settings.type = "object" THEN settings[field] ELSE JUndef

\* the two validation checks: "ok", or the check that rejects
Validate(message) ==
    IF ~Truthy(message) \/ message.type # "string"
          \/ StrLen(Trim(message.str)) = 0
    THEN "required"
    ELSE IF StrLen(message.str) > MaxMessageLength
    THEN "too long"
    ELSE "ok"

ValidationError(v) ==
    IF v = "required"
    THEN "Message is required and must be a non-empty string"
    ELSE "Message is too long (max 10,000 characters)"

\* `session_${Date.now()}`
SessionToken(t) == JStr(Literal("session_" \o ToString(t)))

\* Math.max(0, Math.min(1, settings?.temperature || 0.7)), in tenths
ClampTemperature(settings) ==
    Max(MinTemperature,
        Min(MaxTemperature,
            OrElse(SettingsGet(settings, "temperature"),
                   JNum(DefaultTemperature)).num))

\* Math.max(1, Math.min(4000, settings?.maxTokens || 1000))
ClampMaxTokens(settings) ==
    Max(MinMaxTokens,
        Min(MaxMaxTokens,
            OrElse(SettingsGet(settings, "maxTokens"),
                   JNum(DefaultMaxTokens)).num))

\* the body handed to fetch()
LambdaRequestBody(r, t) ==
    [sent           |-> TRUE,
     inputText      |-> Trim(r.message.str),
     conversationId |-> OrElse(r.conversationId, SessionToken(t)),
     temperature    |-> ClampTemperature(r.settings),
     maxTokens      |-> ClampMaxTokens(r.settings)]

NoFetchBody ==
    [sent |-> FALSE, inputText |-> <<>>, conversationId |-> JUndef,
     temperature |-> 0, maxTokens |-> 0]

\* lambdaResponse.ok
Ok(status) == status >= 200 /\ status <= 299

\* faulty variant: the fields tried in another order: response before outputText
ResponseTextResponseFirst(data) ==
    OrElse(OrElse(data.response, data.outputText), data.message)

\* lambdaData.outputText || lambdaData.response || lambdaData.message
ResponseText(data) ==
    OrElse(OrElse(data.outputText, data.response), data.message)

\* the source tag of an answer that came from the upstream
UpstreamSource == "lambda-bedrock-agent"

\* the body returned when the upstream answered
SuccessBody(r, data, t) ==
    [status         |-> 200,
     error          |-> "",
     response       |-> ResponseText(data),
     conversationId |-> r.conversationId,
     timestamp      |-> t,
     source         |-> UpstreamSource,
     metadata       |-> OrElse(data.metadata, JNull)]

\* faulty variant: the abort looked for under the name AbortSignal.timeout() gives
IsTimeoutByTimeoutError(errorName) == errorName = "TimeoutError"

\* lambdaError instanceof Error && lambdaError.name === 'AbortError'
IsTimeout(errorName) == errorName = "AbortError"

\* faulty variant: the fallback answered as a gateway failure
FallbackBodyAs502(r, mockResponse, errorName, t) ==
    [status         |-> 502,
     error          |-> IF errorName = "AbortError" THEN "Lambda timeout" ELSE "Lambda error",
     response       |-> JStr(mockResponse),
     conversationId |-> OrElse(r.conversationId, SessionToken(t)),
     timestamp      |-> t,
     source         |-> "mock",
     metadata       |-> JUndef]

\* the body returned from the inner catch
FallbackBody(r, mockResponse, errorName, t) ==
    [status         |-> 200,
     error          |-> IF IsTimeout(errorName) THEN "Lambda timeout" ELSE "Lambda error",
     response       |-> JStr(mockResponse),
     conversationId |-> OrElse(r.conversationId, SessionToken(t)),
     timestamp      |-> t,
     source         |-> "mock",
     metadata       |-> JUndef]

\* a body that carries only an error, with its status
ErrorBody(status, text) ==
    [status |-> status, error |-> text, response |-> JUndef,
     conversationId |-> JUndef, timestamp |-> 0 - 1, source |-> "",
     metadata |-> JUndef]

NoResponse == ErrorBody(0, "")

---------------------------------------------------------------------------
(* The inputs: request bodies, configurations, upstream answers.           *)

\* values of `message` that the validation rejects
RejectedMessages ==
    { JUndef, JNull, JNum(0), JNum(42), JObj(<<>>), JStr(<<>>),
      JStr(Repeat(" ", 3)),
      JStr(Repeat(" ", MaxMessageLength + 1)),
      JStr(Repeat("a", MaxMessageLength + 1)),
      JStr(Repeat(" ", 1) \o Repeat("a", MaxMessageLength)) }

\* values of `message` that pass
AcceptedMessages ==
    { JStr(Chars(<<"h", "i">>)),
      JStr(Chars(<<" ", "M", "y", " ", "C", "o", "u", "r", "s", "e", "s", " ">>)),
      JStr(Repeat("a", MaxMessageLength)) }

ConversationIds == { JUndef, JStr(<<>>), JStr(Literal("conv-1")) }

\* settings: absent, or an object whose fields are absent or numbers
\* (temperature in tenths)
SettingsValues ==
    { [type |-> "undefined", temperature |-> JUndef, maxTokens |-> JUndef] }
    \cup
    [ type        : {"object"},
      temperature : {JUndef, JNum(0 - 10), JNum(0), JNum(3), JNum(10), JNum(50)},
      maxTokens   : {JUndef, JNum(500)} ]
    \cup
    [ type        : {"object"},
      temperature : {JUndef, JNum(3)},
      maxTokens   : {JNum(0 - 5), JNum(0), JNum(1), JNum(4000), JNum(4001)} ]

NoSettings == [type |-> "undefined", temperature |-> JUndef, maxTokens |-> JUndef]

\* what request.json() can give: a rejection (malformed JSON), null, a
\* value that is no object (every field reads undefined), an object
RequestBodies ==
    { [kind |-> k, message |-> JUndef, conversationId |-> JUndef,
       settings |-> NoSettings] : k \in {"malformed", "null", "primitive"} }
    \cup
    [ kind           : {"object"},
      message        : RejectedMessages \cup AcceptedMessages,
      conversationId : ConversationIds,
      settings       : SettingsValues ]

NoRequest ==
    [kind |-> "none", message |-> JUndef, conversationId |-> JUndef,
     settings |-> NoSettings]

\* process.env.LAMBDA_FUNCTION_URL: unset, empty, set
Environments ==
    [ LAMBDA_FUNCTION_URL :
        {JUndef, JStr(<<>>), JStr(Literal("https://lambda.example/invoke"))} ]

\* status codes the endpoint answers with
Statuses == {200, 201, 302, 404, 500, 504}

PayloadTexts(t) == {JUndef, JStr(<<>>), JStr(Literal(t))}

\* what lambdaResponse.json() can give: null, or an object
Payloads ==
    { [isNull |-> TRUE, outputText |-> JUndef, response |-> JUndef,
       message |-> JUndef, metadata |-> JUndef] }
    \cup
    [ isNull     : {FALSE},
      outputText : PayloadTexts("text of outputText"),
      response   : PayloadTexts("text of response"),
      message    : PayloadTexts("text of message"),
      metadata   : {JUndef, JObj(<<"database_table_1", "database_table_2">>)} ]

NoPayload ==
    [isNull |-> FALSE, outputText |-> JUndef, response |-> JUndef,
     message |-> JUndef, metadata |-> JUndef]

---------------------------------------------------------------------------
(* The parts of the program are followed one at a time: while one is       *)
(* followed, the variables of the others rest at the values below.         *)

\* no key computed yet (not a string: a run has n >= 1)
NoKey == <<[ch |-> "", n |-> 0]>>

NormIdle ==
    /\ nkInput = <<>>
    /\ nkKey = NoKey
    /\ nkKeyAgain = NoKey
    /\ nkVariant = <<>>
    /\ nkVariantKey = NoKey

ChatIdle ==
    /\ env = [LAMBDA_FUNCTION_URL |-> JUndef]
    /\ upstream = "answering"
    /\ now = 0
    /\ pc = "idle"
    /\ req = NoRequest
    /\ fetchBody = NoFetchBody
    /\ timeoutId = "none"
    /\ lambdaError = "none"
    /\ res = NoResponse
    /\ lambdaData = NoPayload
    /\ outcome = "none"
    /\ fetchCalls = 0
    /\ mockCalls = 0

\* the keys and values callers pass to the cache
CacheKeys == {"what is ai", "my courses"}

CacheValues == {"first answer", "second answer"}

\* no entry under a key
NoEntry == [present |-> FALSE, value |-> "", expiresAt |-> 0]

\* no call made yet.  A call is recorded with its arguments, the time it
\* was made at, the entry the store held under the key before it, what
\* became of the request to the store (none made, ok, failed), whether the
\* call threw and what it returned.
NoCacheCall ==
    [op |-> "none", key |-> "", value |-> "", at |-> 0, before |-> NoEntry,
     network |-> "none", threw |-> FALSE, result |-> JUndef]

CacheIdle ==
    /\ cacheEnv = [UPSTASH_REDIS_REST_URL |-> JUndef, UPSTASH_REDIS_REST_TOKEN |-> JUndef]
    /\ redisClient = "null"
    /\ kv = [k \in CacheKeys |-> NoEntry]
    /\ cacheNow = 0
    /\ cacheTicks = 0
    /\ cacheCall = NoCacheCall

\* no request served before
NoExchange == [served |-> FALSE, req |-> NoRequest, res |-> NoResponse, fetchCalls |-> 0]

SeqIdle == prev = NoExchange

MockIdle ==
    /\ mkPrompt = <<>>
    /\ mkResult = NoKey

\* the requests in flight together
Requests == {1, 2}

\* the locals of a POST invocation that has not started.  upstream is how
\* the endpoint treats this request, pick the template index Math.random()
\* gave, doneAt the Date.now() of the response, overlapped whether another
\* request was in flight when this one came in.
NoHandler ==
    [pc |-> "idle", upstream |-> "answering", req |-> NoRequest,
     fetchBody |-> NoFetchBody, timeoutId |-> "none", lambdaError |-> "none",
     res |-> NoResponse, lambdaData |-> NoPayload, outcome |-> "none",
     fetchCalls |-> 0, mockCalls |-> 0, pick |-> 0, doneAt |-> 0,
     overlapped |-> FALSE]

ConcIdle == handlers = [i \in Requests |-> NoHandler]

\* formData.get(name) for a field that is not in the form
NoField == [kind |-> "null", text |-> "", type |-> "", size |-> 0, name |-> <<>>]

\* no form read yet
NoForm == [parsed |-> FALSE, file |-> NoField, conversationId |-> NoField]

NoKeyBuilt == [conversationId |-> "", timestamp |-> 0 - 1, fileExtension |-> ""]

NoUploadResponse == [status |-> 0, error |-> "", success |-> FALSE, s3Key |-> NoKeyBuilt]

UploadIdle ==
    /\ upPc = "idle"
    /\ upForm = NoForm
    /\ upKey = NoKeyBuilt
    /\ upRes = NoUploadResponse
    /\ s3Puts = 0
    /\ s3Failed = FALSE
    /\ bucket = {}

\* a value inside the analysis: undefined, a list, a text
AUndef == [kind |-> "undefined", items |-> <<>>, text |-> ""]

AList(xs) == [kind |-> "array", items |-> xs, text |-> ""]

AText(s) == [kind |-> "string", items |-> <<>>, text |-> s]

NoAnalysis ==
    [insights |-> AUndef, recommendedRoles |-> AUndef, missingSkills |-> AUndef,
     projectIdeas |-> AUndef, relevantCourses |-> AUndef]

NoAnalyzeRequest ==
    [kind |-> "none", s3Key |-> JUndef, userPrompt |-> JUndef, conversationId |-> JUndef]

NoAnalyzeData == [isNull |-> FALSE, outputText |-> JUndef]

NoAnalyzeResponse ==
    [status |-> 0, error |-> "", success |-> FALSE, warning |-> "",
     analysis |-> NoAnalysis, s3Key |-> JUndef, timestamp |-> 0 - 1]

AnalyzeIdle ==
    /\ anEndpoint = JUndef
    /\ anPc = "idle"
    /\ anReq = NoAnalyzeRequest
    /\ anData = NoAnalyzeData
    /\ anRes = NoAnalyzeResponse
    /\ anFetches = 0
    /\ anOutcome = "none"

UiIdle ==
    /\ inputValue = <<>>
    /\ messages = <<>>
    /\ isTyping = FALSE
    /\ requests = <<>>
    /\ sends = 0
    /\ replies = 0
    /\ completion = "none"
    /\ uiData = NoResponse

ClientIdle ==
    /\ redisAttempts = 0
    /\ redisBuilt = 0
    /\ clientId = 0
    /\ clientUsed = 0

\* a JavaScript number: NaN, or an integer
NaN == [nan |-> TRUE, n |-> 0]

Num(k) == [nan |-> FALSE, n |-> k]

DeadlineIdle ==
    /\ timeoutEnv = JUndef
    /\ dlPc = "idle"
    /\ lambdaTimeoutMs = NaN
    /\ elapsed = 0

\* no /api/upload-url or /api/upload call answered yet
NoRouteResponse == [route |-> "", status |-> 0, error |-> "", success |-> FALSE, key |-> <<>>]

RoutesIdle ==
    /\ uploads = <<>>
    /\ routeRes = NoRouteResponse

\* what one /api/chat request leaves alone
notChat == <<normVars, cacheVars, seqVars, mockVars, concVars, uploadVars,
             analyzeVars, uiVars, clientVars, deadlineVars, routesVars>>

\* what normalizeCacheKey leaves alone
notNorm == <<chatVars, cacheVars, seqVars, mockVars, concVars, uploadVars,
             analyzeVars, uiVars, clientVars, deadlineVars, routesVars>>

\* what getCache and setCache leave alone
notCache == <<chatVars, normVars, seqVars, mockVars, concVars, uploadVars,
              analyzeVars, uiVars, clientVars, deadlineVars, routesVars>>

\* what a following /api/chat request leaves alone
notSeq == <<normVars, cacheVars, mockVars, concVars, uploadVars, analyzeVars,
            uiVars, clientVars, deadlineVars, routesVars>>

\* what requests in flight together leave alone: all but env and now
notConc == <<upstream, pc, req, fetchBody, timeoutId, lambdaError, res,
             lambdaData, outcome, fetchCalls, mockCalls, normVars, cacheVars,
             seqVars, mockVars, uploadVars, analyzeVars, uiVars, clientVars,
             deadlineVars, routesVars>>

\* what /api/upload-proxy leaves alone: all but the clock
notUpload == <<env, upstream, pc, req, fetchBody, timeoutId, lambdaError, res,
               lambdaData, outcome, fetchCalls, mockCalls, normVars,
               cacheVars, seqVars, mockVars, concVars, analyzeVars, uiVars,
               clientVars, deadlineVars, routesVars>>

\* what getMockResponse leaves alone
notMock == <<chatVars, normVars, cacheVars, seqVars, concVars, uploadVars,
             analyzeVars, uiVars, clientVars, deadlineVars, routesVars>>

\* what /api/analyze leaves alone: all but the clock
notAnalyze == <<env, upstream, pc, req, fetchBody, timeoutId, lambdaError,
                res, lambdaData, outcome, fetchCalls, mockCalls, normVars,
                cacheVars, seqVars, mockVars, concVars, uploadVars, uiVars,
                clientVars, deadlineVars, routesVars>>

\* what the chat interface and its /api/chat requests leave alone
notUi == <<normVars, cacheVars, seqVars, mockVars, concVars, uploadVars,
           analyzeVars, clientVars, deadlineVars, routesVars>>

\* what getCache and setCache, their clients counted, leave alone
notClient == <<chatVars, normVars, seqVars, mockVars, concVars, uploadVars,
               analyzeVars, uiVars, deadlineVars, routesVars>>

\* what the times of a request leave alone
notDeadline == <<chatVars, normVars, cacheVars, seqVars, mockVars, concVars,
                 uploadVars, analyzeVars, uiVars, clientVars, routesVars>>

\* what the upload routes leave alone: all but the clock
notRoutes == <<env, upstream, pc, req, fetchBody, timeoutId, lambdaError, res,
               lambdaData, outcome, fetchCalls, mockCalls, normVars,
               cacheVars, seqVars, mockVars, concVars,
               analyzeVars, uiVars, clientVars, deadlineVars>>

---------------------------------------------------------------------------
(* The handler.                                                            *)

Init ==
    /\ env \in Environments
    /\ upstream \in {"answering", "silent"}
    /\ now = 0
    /\ pc = "idle"
    /\ req = NoRequest
    /\ fetchBody = NoFetchBody
    /\ timeoutId = "none"
    /\ lambdaError = "none"
    /\ res = NoResponse
    /\ lambdaData = NoPayload
    /\ outcome = "none"
    /\ fetchCalls = 0
    /\ mockCalls = 0
    /\ NormIdle
    /\ CacheIdle
    /\ SeqIdle
    /\ MockIdle
    /\ ConcIdle
    /\ UploadIdle
    /\ AnalyzeIdle
    /\ UiIdle
    /\ ClientIdle
    /\ DeadlineIdle
    /\ RoutesIdle

\* return NextResponse.json(body)
Respond(body) ==
    /\ res' = body
    /\ pc' = "done"

\* faulty variant: no inner catch: the error reaches the outer catch
CatchRethrows(errorName) ==
    /\ lambdaError' = errorName
    /\ mockCalls' = mockCalls
    /\ res' = ErrorBody(500, "Internal server error")
    /\ pc' = "done"

\* the inner catch up to `await getMockResponse(message)`
CatchLambdaError(errorName) ==
    /\ lambdaError' = errorName
    /\ mockCalls' = mockCalls + 1
    /\ pc' = "mock"
    /\ res' = res

\* faulty variant: fetch() is called whether or not the URL is set
ReceiveWithoutUrlCheck(body, t) ==
    /\ pc = "idle"
    /\ req' = body
    /\ now' = t
    /\ UNCHANGED <<env, upstream, lambdaData>>
    /\ IF body.kind \in {"malformed", "null"}
       THEN /\ Respond(ErrorBody(500, "Internal server error"))
            /\ UNCHANGED <<fetchBody, timeoutId, lambdaError, outcome,
                           fetchCalls, mockCalls>>
       ELSE IF Validate(body.message) # "ok"
       THEN /\ Respond(ErrorBody(400, ValidationError(Validate(body.message))))
            /\ UNCHANGED <<fetchBody, timeoutId, lambdaError, outcome,
                           fetchCalls, mockCalls>>
       ELSE /\ timeoutId' = "armed"
            /\ fetchBody' = LambdaRequestBody(body, t)
            /\ fetchCalls' = fetchCalls + 1
            /\ pc' = "fetch"
            /\ UNCHANGED <<lambdaError, res, outcome, mockCalls>>

\* POST from `await request.json()` to its first await or return
Receive(body, t) ==
    /\ pc = "idle"
    /\ req' = body
    /\ now' = t
    /\ UNCHANGED <<env, upstream, lambdaData>>
    /\ IF body.kind \in {"malformed", "null"}
       THEN /\ Respond(ErrorBody(500, "Internal server error"))
            /\ UNCHANGED <<fetchBody, timeoutId, lambdaError, outcome,
                           fetchCalls, mockCalls>>
       ELSE IF Validate(body.message) # "ok"
       THEN /\ Respond(ErrorBody(400, ValidationError(Validate(body.message))))
            /\ UNCHANGED <<fetchBody, timeoutId, lambdaError, outcome,
                           fetchCalls, mockCalls>>
       ELSE IF ~Truthy(env.LAMBDA_FUNCTION_URL)
       THEN /\ CatchLambdaError("Error")
            /\ outcome' = "unconfigured"
            /\ UNCHANGED <<fetchBody, timeoutId, fetchCalls>>
       ELSE /\ timeoutId' = "armed"
            /\ fetchBody' = LambdaRequestBody(body, t)
            /\ fetchCalls' = fetchCalls + 1
            /\ pc' = "fetch"
            /\ UNCHANGED <<lambdaError, res, outcome, mockCalls>>

\* fetch() resolves with a status line: clearTimeout, the ok test
FetchResolves(status, t) ==
    /\ pc = "fetch"
    /\ upstream = "answering"
    /\ now' = t
    /\ timeoutId' = "cleared"
    /\ UNCHANGED <<env, upstream, req, fetchBody, lambdaData, fetchCalls>>
    /\ IF Ok(status)
       THEN /\ pc' = "body"
            /\ UNCHANGED <<lambdaError, res, outcome, mockCalls>>
       ELSE /\ CatchLambdaError("Error")
            /\ outcome' = "status"

\* faulty variant: a transport failure is retried: fetch() is called again
FetchRejectsRetries(t) ==
    /\ pc = "fetch"
    /\ upstream = "answering"
    /\ now' = t
    /\ fetchCalls' = fetchCalls + 1
    /\ UNCHANGED <<env, upstream, pc, req, fetchBody, timeoutId, lambdaError, res,
                   lambdaData, outcome, mockCalls>>

\* fetch() rejects for a transport failure (the timer stays armed)
FetchRejects(t) ==
    /\ pc = "fetch"
    /\ upstream = "answering"
    /\ now' = t
    /\ CatchLambdaError("TypeError")
    /\ outcome' = "network"
    /\ UNCHANGED <<env, upstream, req, fetchBody, timeoutId, lambdaData, fetchCalls>>

\* faulty variant: fetch() was not given controller.signal: the abort reaches nothing
TimeoutFiresWithoutSignal(t) ==
    /\ timeoutId = "armed"
    /\ now' = t
    /\ timeoutId' = "fired"
    /\ UNCHANGED <<env, upstream, pc, req, fetchBody, lambdaError, res, lambdaData,
                   outcome, fetchCalls, mockCalls>>

\* the timer's callback: controller.abort(); a fetch in flight rejects
\* with an AbortError, a settled one is not touched
TimeoutFires(t) ==
    /\ timeoutId = "armed"
    /\ now' = t
    /\ timeoutId' = "fired"
    /\ UNCHANGED <<env, upstream, req, fetchBody, lambdaData, fetchCalls>>
    /\ IF pc = "fetch"
       THEN /\ CatchLambdaError("AbortError")
            /\ outcome' = "abort"
       ELSE UNCHANGED <<pc, lambdaError, res, outcome, mockCalls>>

\* lambdaResponse.json() resolves: the success response, or a TypeError
\* when the body is the JSON null (lambdaData.outputText throws)
BodyParses(data, t) ==
    /\ pc = "body"
    /\ now' = t
    /\ lambdaData' = data
    /\ UNCHANGED <<env, upstream, req, fetchBody, timeoutId, fetchCalls>>
    /\ IF data.isNull
       THEN /\ CatchLambdaError("TypeError")
            /\ outcome' = "null"
       ELSE /\ Respond(SuccessBody(req, data, t))
            /\ outcome' = "object"
            /\ UNCHANGED <<lambdaError, mockCalls>>

\* lambdaResponse.json() rejects: the body is no JSON
BodyRejects(t) ==
    /\ pc = "body"
    /\ now' = t
    /\ CatchLambdaError("SyntaxError")
    /\ outcome' = "syntax"
    /\ UNCHANGED <<env, upstream, req, fetchBody, timeoutId, lambdaData, fetchCalls>>

\* the mock's delay is over: the rest of getMockResponse and of the catch
MockResolves(r, t) ==
    /\ pc = "mock"
    /\ now' = t
    /\ Respond(FallbackBody(req, getMockResponse(req.message.str, r), lambdaError, t))
    /\ UNCHANGED <<env, upstream, req, fetchBody, timeoutId, lambdaError,
                   lambdaData, outcome, fetchCalls, mockCalls>>

Next ==
    \/ \E body \in RequestBodies, t \in now..MaxClock :
            Receive(body, t) /\ UNCHANGED notChat
    \/ \E status \in Statuses, t \in now..MaxClock :
            FetchResolves(status, t) /\ UNCHANGED notChat
    \/ \E t \in now..MaxClock : FetchRejects(t) /\ UNCHANGED notChat
    \/ \E t \in now..MaxClock : TimeoutFires(t) /\ UNCHANGED notChat
    \/ \E data \in Payloads, t \in now..MaxClock :
            BodyParses(data, t) /\ UNCHANGED notChat
    \/ \E t \in now..MaxClock : BodyRejects(t) /\ UNCHANGED notChat
    \/ \E r \in 0..(NumGenericResponses - 1), t \in now..MaxClock :
            MockResolves(r, t) /\ UNCHANGED notChat

Spec == Init /\ [][Next]_vars

\* The event loop runs every callback that is due: an armed timer fires,
\* the mock's delay ends.
FairSpec ==
    /\ Spec
    /\ WF_vars(\E t \in now..MaxClock : TimeoutFires(t) /\ UNCHANGED notChat)
    /\ WF_vars(\E r \in 0..(NumGenericResponses - 1), t \in now..MaxClock :
                    MockResolves(r, t) /\ UNCHANGED notChat)

---------------------------------------------------------------------------
(* /api/chat serving one request after another, the cache configured.      *)

\* two prompts with one cache key, and a third
SeqMessages ==
    { JStr(Chars(<<"h", "i">>)), JStr(Chars(<<"H", "i", "!">>)),
      JStr(Chars(<<"m", "y", " ", "c", "o", "u", "r", "s", "e", "s">>)) }

SeqBodies ==
    [ kind           : {"object"},
      message        : SeqMessages,
      conversationId : {JStr(Literal("conv-1"))},
      settings       : {NoSettings} ]

SeqStatuses == {200, 500}

SeqPayloads ==
    {p \in Payloads : p.response = JUndef /\ p.message = JUndef /\ p.metadata = JUndef}

SeqInit ==
    /\ env = [LAMBDA_FUNCTION_URL |-> JStr(Literal("https://lambda.example/invoke"))]
    /\ upstream \in {"answering", "silent"}
    /\ now = 0
    /\ pc = "idle"
    /\ req = NoRequest
    /\ fetchBody = NoFetchBody
    /\ timeoutId = "none"
    /\ lambdaError = "none"
    /\ res = NoResponse
    /\ lambdaData = NoPayload
    /\ outcome = "none"
    /\ fetchCalls = 0
    /\ mockCalls = 0
    /\ prev = NoExchange
    /\ NormIdle
    /\ cacheEnv = [UPSTASH_REDIS_REST_URL   |-> JStr(Literal("https://cache.upstash.io")),
                   UPSTASH_REDIS_REST_TOKEN |-> JStr(Literal("token"))]
    /\ redisClient = "null"
    /\ kv = [k \in CacheKeys |-> NoEntry]
    /\ cacheNow = 0
    /\ cacheTicks = 0
    /\ cacheCall = NoCacheCall
    /\ MockIdle
    /\ ConcIdle
    /\ UploadIdle
    /\ AnalyzeIdle
    /\ UiIdle
    /\ ClientIdle
    /\ DeadlineIdle
    /\ RoutesIdle

\* the response is sent and POST is entered for the next request
NextRequest ==
    /\ pc = "done"
    /\ ~prev.served
    /\ prev' = [served |-> TRUE, req |-> req, res |-> res, fetchCalls |-> fetchCalls]
    /\ pc' = "idle"
    /\ req' = NoRequest
    /\ fetchBody' = NoFetchBody
    /\ timeoutId' = "none"
    /\ lambdaError' = "none"
    /\ res' = NoResponse
    /\ lambdaData' = NoPayload
    /\ outcome' = "none"
    /\ UNCHANGED <<env, upstream, now, fetchCalls, mockCalls>>

SeqNext ==
    \/ \E body \in SeqBodies, t \in now..MaxClock :
            Receive(body, t) /\ UNCHANGED notChat
    \/ \E status \in SeqStatuses, t \in now..MaxClock :
            FetchResolves(status, t) /\ UNCHANGED notChat
    \/ \E t \in now..MaxClock : FetchRejects(t) /\ UNCHANGED notChat
    \/ \E t \in now..MaxClock : TimeoutFires(t) /\ UNCHANGED notChat
    \/ \E data \in SeqPayloads, t \in now..MaxClock :
            BodyParses(data, t) /\ UNCHANGED notChat
    \/ \E t \in now..MaxClock : BodyRejects(t) /\ UNCHANGED notChat
    \/ \E r \in 0..(NumGenericResponses - 1), t \in now..MaxClock :
            MockResolves(r, t) /\ UNCHANGED notChat
    \/ NextRequest /\ UNCHANGED notSeq

SeqSpec == SeqInit /\ [][SeqNext]_vars

---------------------------------------------------------------------------
(* /api/chat with requests in flight together.  Every invocation of POST   *)
(* has its own locals (message, controller, timeoutId, lambdaResponse),    *)
(* kept in handlers[i]; the invocations share process.env and the clock,   *)
(* and they interleave at their awaits.                                    *)

ConcBodies ==
    [ kind           : {"object"},
      message        : {JStr(<<>>), JStr(Chars(<<"h", "i">>))},
      conversationId : {JUndef},
      settings       : {NoSettings} ]

ConcStatuses == {200, 500}

ConcPayloads ==
    {p \in Payloads : /\ p.response = JUndef /\ p.message = JUndef
                      /\ p.metadata = JUndef /\ p.outputText # JStr(<<>>)}

\* return NextResponse.json(body) at time t
Responded(h, body, t) == [h EXCEPT !.res = body, !.pc = "done", !.doneAt = t]

\* the inner catch up to `await getMockResponse(message)`
Caught(h, errorName, how) ==
    [h EXCEPT !.lambdaError = errorName, !.mockCalls = @ + 1, !.pc = "mock",
              !.outcome = how]

\* POST from `await request.json()` to its first await or return
Received(h, body, t) ==
    IF body.kind \in {"malformed", "null"}
    THEN Responded([h EXCEPT !.req = body], ErrorBody(500, "Internal server error"), t)
    ELSE IF Validate(body.message) # "ok"
    THEN Responded([h EXCEPT !.req = body],
                   ErrorBody(400, ValidationError(Validate(body.message))), t)
    ELSE IF ~Truthy(env.LAMBDA_FUNCTION_URL)
    THEN Caught([h EXCEPT !.req = body], "Error", "unconfigured")
    ELSE [h EXCEPT !.req = body, !.timeoutId = "armed",
                   !.fetchBody = LambdaRequestBody(body, t),
                   !.fetchCalls = @ + 1, !.pc = "fetch"]

ConcInit ==
    /\ env \in {[LAMBDA_FUNCTION_URL |-> JUndef],
                 [LAMBDA_FUNCTION_URL |-> JStr(Literal("https://lambda.example/invoke"))]}
    /\ now = 0
    /\ handlers = [i \in Requests |-> NoHandler]
    /\ upstream = "answering"
    /\ pc = "idle"
    /\ req = NoRequest
    /\ fetchBody = NoFetchBody
    /\ timeoutId = "none"
    /\ lambdaError = "none"
    /\ res = NoResponse
    /\ lambdaData = NoPayload
    /\ outcome = "none"
    /\ fetchCalls = 0
    /\ mockCalls = 0
    /\ NormIdle
    /\ CacheIdle
    /\ SeqIdle
    /\ MockIdle
    /\ UploadIdle
    /\ AnalyzeIdle
    /\ UiIdle
    /\ ClientIdle
    /\ DeadlineIdle
    /\ RoutesIdle

\* request i comes in; the endpoint will answer it or stay silent
ConcReceive(i, body, mode, t) ==
    /\ handlers[i].pc = "idle"
    /\ now' = t
    /\ handlers' =
          [handlers EXCEPT ![i] =
              Received([@ EXCEPT !.upstream = mode,
                                 !.overlapped =
                                     \E j \in Requests \ {i} :
                                         handlers[j].pc \notin {"idle", "done"}],
                       body, t)]
    /\ UNCHANGED env

\* fetch() of request i resolves with a status line
ConcFetchResolves(i, status, t) ==
    /\ handlers[i].pc = "fetch"
    /\ handlers[i].upstream = "answering"
    /\ now' = t
    /\ handlers' =
          [handlers EXCEPT ![i] =
              IF Ok(status)
              THEN [@ EXCEPT !.timeoutId = "cleared", !.pc = "body"]
              ELSE Caught([@ EXCEPT !.timeoutId = "cleared"], "Error", "status")]
    /\ UNCHANGED env

\* fetch() of request i rejects for a transport failure
ConcFetchRejects(i, t) ==
    /\ handlers[i].pc = "fetch"
    /\ handlers[i].upstream = "answering"
    /\ now' = t
    /\ handlers' = [handlers EXCEPT ![i] = Caught(@, "TypeError", "network")]
    /\ UNCHANGED env

\* faulty variant: one controller at module level: the abort reaches every
\* fetch in flight
ConcTimeoutFiresSharedController(i, t) ==
    /\ handlers[i].timeoutId = "armed"
    /\ now' = t
    /\ handlers' =
          [j \in Requests |->
              IF handlers[j].pc = "fetch"
              THEN Caught([handlers[j] EXCEPT !.timeoutId =
                               IF j = i THEN "fired" ELSE @],
                          "AbortError", "abort")
              ELSE IF j = i THEN [handlers[j] EXCEPT !.timeoutId = "fired"]
              ELSE handlers[j]]
    /\ UNCHANGED env

\* the timer of request i fires: its controller aborts its fetch
ConcTimeoutFires(i, t) ==
    /\ handlers[i].timeoutId = "armed"
    /\ now' = t
    /\ handlers' =
          [handlers EXCEPT ![i] =
              IF @.pc = "fetch"
              THEN Caught([@ EXCEPT !.timeoutId = "fired"], "AbortError", "abort")
              ELSE [@ EXCEPT !.timeoutId = "fired"]]
    /\ UNCHANGED env

\* lambdaResponse.json() of request i resolves
ConcBodyParses(i, data, t) ==
    /\ handlers[i].pc = "body"
    /\ now' = t
    /\ handlers' =
          [handlers EXCEPT ![i] =
              IF data.isNull
              THEN Caught([@ EXCEPT !.lambdaData = data], "TypeError", "null")
              ELSE Responded([@ EXCEPT !.lambdaData = data, !.outcome = "object"],
                             SuccessBody(@.req, data, t), t)]
    /\ UNCHANGED env

\* lambdaResponse.json() of request i rejects
ConcBodyRejects(i, t) ==
    /\ handlers[i].pc = "body"
    /\ now' = t
    /\ handlers' = [handlers EXCEPT ![i] = Caught(@, "SyntaxError", "syntax")]
    /\ UNCHANGED env

\* the mock's delay of request i is over
ConcMockResolves(i, r, t) ==
    /\ handlers[i].pc = "mock"
    /\ now' = t
    /\ handlers' =
          [handlers EXCEPT ![i] =
              Responded([@ EXCEPT !.pick = r],
                        FallbackBody(@.req, getMockResponse(@.req.message.str, r),
                                     @.lambdaError, t), t)]
    /\ UNCHANGED env

ConcNext ==
    \/ \E i \in Requests, body \in ConcBodies, mode \in {"answering", "silent"},
          t \in now..MaxClock :
            ConcReceive(i, body, mode, t) /\ UNCHANGED notConc
    \/ \E i \in Requests, status \in ConcStatuses, t \in now..MaxClock :
            ConcFetchResolves(i, status, t) /\ UNCHANGED notConc
    \/ \E i \in Requests, t \in now..MaxClock :
            ConcFetchRejects(i, t) /\ UNCHANGED notConc
    \/ \E i \in Requests, t \in now..MaxClock :
            ConcTimeoutFires(i, t) /\ UNCHANGED notConc
    \/ \E i \in Requests, data \in ConcPayloads, t \in now..MaxClock :
            ConcBodyParses(i, data, t) /\ UNCHANGED notConc
    \/ \E i \in Requests, t \in now..MaxClock :
            ConcBodyRejects(i, t) /\ UNCHANGED notConc
    \/ \E i \in Requests, r \in 0..(NumGenericResponses - 1), t \in now..MaxClock :
            ConcMockResolves(i, r, t) /\ UNCHANGED notConc

ConcSpec == ConcInit /\ [][ConcNext]_vars

---------------------------------------------------------------------------
(* Properties of /api/chat.                                                *)

\* request.json() resolved: the body is JSON
BodyParsed == req.kind \in {"null", "primitive", "object"}

\* the message is no string, is blank, or is longer than 10000
MessageInvalid ==
    \/ req.message.type # "string"
    \/ StrLen(Trim(req.message.str)) = 0
    \/ StrLen(req.message.str) > 10000

\* the request passed both validation checks
Validated == pc # "idle" /\ BodyParsed /\ ~MessageInvalid

\* the upstream attempt did not succeed: no endpoint configured, a status
\* outside 2xx, a transport failure, the timeout's abort, a 2xx body that
\* is no JSON or is the JSON null
UpstreamFailed ==
    outcome \in {"unconfigured", "status", "network", "abort", "syntax", "null"}

NonEmptyString(v) == v.type = "string" /\ StrLen(v.str) > 0

\* C1: a request whose body parses and whose message is no string, is
\* blank or is longer than 10000 characters is answered 400 without any
\* upstream or mock call, and an over-length message with the "too long"
\* text.
C1_InvalidMessageIs400 ==
    (pc = "done" /\ BodyParsed /\ MessageInvalid) =>
        /\ res.status = 400
        /\ fetchCalls = 0
        /\ mockCalls = 0
        /\ (req.message.type = "string" /\ StrLen(req.message.str) > 10000)
              => res.error = "Message is too long (max 10,000 characters)"

\* C2: a validated request whose upstream attempt does not succeed is
\* answered by the Mock Responder: one mock call, status 200, source
\* "mock", a non-empty response string.
C2_FailureFallsBackToMock ==
    (pc = "done" /\ Validated /\ UpstreamFailed) =>
        /\ mockCalls = 1
        /\ res.status = 200
        /\ res.source = "mock"
        /\ NonEmptyString(res.response)

C2_Witness ==
    /\ pc = "done"
    /\ Validated
    /\ outcome = "syntax"
    /\ res.source = "mock"

\* C3: a validated request makes at most one upstream call and at most one
\* mock call, and ends either as an upstream success (no mock call) or as a
\* mock fallback (one mock call), never both and never neither.
C3_OneAttemptOneOutcome ==
    /\ fetchCalls <= 1
    /\ mockCalls <= 1
    /\ (pc = "done" /\ Validated) =>
          LET success  == outcome = "object" /\ res.source = UpstreamSource
                          /\ mockCalls = 0 /\ fetchCalls = 1
              fallback == UpstreamFailed /\ res.source = "mock" /\ mockCalls = 1
          IN  (success \/ fallback) /\ ~(success /\ fallback)

C3_Witness ==
    /\ pc = "done"
    /\ Validated
    /\ outcome = "network"
    /\ timeoutId = "fired"
    /\ fetchCalls = 1
    /\ mockCalls = 1

\* the payload's text fields in the order the handler tries them
PayloadFields == <<"outputText", "response", "message">>

NonEmptyFields == {i \in DOMAIN PayloadFields : NonEmptyString(lambdaData[PayloadFields[i]])}

FirstNonEmptyField ==
    lambdaData[PayloadFields[CHOOSE i \in NonEmptyFields : \A j \in NonEmptyFields : i <= j]]

\* what C4 promises of a success response
ForwardsUpstreamText ==
    /\ res.status = 200
    /\ res.source = UpstreamSource
    /\ res.error = ""
    /\ NonEmptyFields # {} => res.response = FirstNonEmptyField
    /\ lambdaData.metadata.type = "object" => res.metadata = lambdaData.metadata

C5_ResponseNeverEmpty ==
    (pc = "done" /\ res.status = 200) => NonEmptyString(res.response)

\* C6: on the fallback path the error tag is "Lambda timeout" exactly when
\* the timeout's abort ended the upstream attempt, and "Lambda error" for
\* every other failure.
C6_ErrorTagTellsTimeout ==
    (pc = "done" /\ res.source = "mock") =>
        /\ UpstreamFailed
        /\ outcome = "abort" => res.error = "Lambda timeout"
        /\ outcome # "abort" => res.error = "Lambda error"

C6_Witness ==
    /\ pc = "done"
    /\ outcome = "abort"
    /\ res.source = "mock"
    /\ res.error = "Lambda timeout"

\* C7: when the endpoint never answers, the timer aborts the fetch, the
\* handler runs the mock, and a response with source "mock" and error
\* "Lambda timeout" is eventually returned.
C7_SilentUpstreamTimesOut ==
    (pc = "fetch" /\ upstream = "silent") ~>
        (/\ pc = "done"
         /\ timeoutId = "fired"
         /\ mockCalls = 1
         /\ res.status = 200
         /\ res.source = "mock"
         /\ res.error = "Lambda timeout")

C7_Witness ==
    /\ upstream = "silent"
    /\ pc = "done"
    /\ outcome = "abort"
    /\ res.error = "Lambda timeout"

\* the caller's number clamped into lo..hi, the default when none is given
ClampedOrDefault(v, lo, hi, default) ==
    IF v.type = "number" THEN Max(lo, Min(hi, v.num)) ELSE default

\* C8: the forwarded temperature is the caller's number clamped into [0,1]
\* (tenths: 0..10), the forwarded maxTokens the caller's number clamped
\* into [1,4000]; 0.7 and 1000 when the caller gives none.
C8_SettingsClamped ==
    fetchBody.sent =>
        /\ fetchBody.temperature =
              ClampedOrDefault(SettingsGet(req.settings, "temperature"), 0, 10, 7)
        /\ fetchBody.maxTokens =
              ClampedOrDefault(SettingsGet(req.settings, "maxTokens"), 1, 4000, 1000)

\* C9: every 200 response carries a conversationId string: the caller's
\* when one was given, a session token otherwise; on the success path it
\* is the identifier that was forwarded to the upstream.
C9_ConversationIdReturned ==
    (pc = "done" /\ res.status = 200) =>
        /\ res.conversationId.type = "string"
        /\ NonEmptyString(req.conversationId) => res.conversationId = req.conversationId
        /\ req.conversationId.type = "undefined" =>
              \E t \in 0..MaxClock : res.conversationId = SessionToken(t)
        /\ outcome = "object" => res.conversationId = fetchBody.conversationId

\* C10: a status other than 200 is a 400 for a message that fails
\* validation or a 500 with the generic text for a body that could not be
\* read, both without any upstream or mock call; no upstream failure gives
\* a status other than 200.
C10_Non200OnlyForBadRequests ==
    pc = "done" =>
        /\ res.status \in {200, 400, 500}
        /\ res.status = 400 => (BodyParsed /\ MessageInvalid)
        /\ res.status = 500 =>
              (req.kind \in {"malformed", "null"} /\ res.error = "Internal server error")
        /\ res.status # 200 => (fetchCalls = 0 /\ mockCalls = 0 /\ outcome = "none")
        /\ outcome # "none" => res.status = 200

C10_Witness ==
    /\ pc = "done"
    /\ req.kind = "malformed"
    /\ res.status = 500
    /\ res.error = "Internal server error"

---------------------------------------------------------------------------
(* lib/cache.ts: normalizeCacheKey.                                        *)

\* the characters of the class [.,!?'"\\]
Punctuation == {".", ",", "!", "?", "'", "\"", "\\"}

\* .replace(/[.,!?'"\\]/g, '')
StripPunctuation(s) == SelectSeq(s, LAMBDA r : r.ch \notin Punctuation)

\* .replace(/\s+/g, ' '): \s is the set trim() strips
RECURSIVE CollapseWhitespace(_)
CollapseWhitespace(s) ==
    IF s = <<>> THEN <<>>
    ELSE IF IsSpace(Head(s).ch)
         THEN <<[ch |-> " ", n |-> 1]>> \o CollapseWhitespace(TrimStart(s))
         ELSE <<Head(s)>> \o CollapseWhitespace(Tail(s))

normalizeCacheKey(input) ==
    CollapseWhitespace(StripPunctuation(ToLowerCase(Trim(input))))

\* the characters callers type here: whitespace, punctuation, a letter in
\* both cases
KeyAlphabet == {" ", "\t", ".", "a", "A"}

KeyInputs ==
    UNION {{Chars(cs) : cs \in [1..k -> KeyAlphabet]} : k \in 0..MaxKeyLen}

InsertAt(s, i, c) == SubSeq(s, 1, i) \o Chars(<<c>>) \o SubSeq(s, i + 1, Len(s))

RemoveAt(s, i) == SubSeq(s, 1, i - 1) \o SubSeq(s, i + 1, Len(s))

\* the same letter in the other case
OtherCase(c) ==
    IF c \in DOMAIN LowerOf THEN LowerOf[c]
    ELSE CHOOSE u \in DOMAIN LowerOf : LowerOf[u] = c

IsLetter(c) == c \in DOMAIN LowerOf \/ \E u \in DOMAIN LowerOf : LowerOf[u] = c

NormInit ==
    /\ nkInput \in KeyInputs
    /\ nkKey = NoKey
    /\ nkKeyAgain = NoKey
    /\ nkVariant = <<>>
    /\ nkVariantKey = NoKey
    /\ ChatIdle
    /\ CacheIdle
    /\ SeqIdle
    /\ MockIdle
    /\ ConcIdle
    /\ UploadIdle
    /\ AnalyzeIdle
    /\ UiIdle
    /\ ClientIdle
    /\ DeadlineIdle
    /\ RoutesIdle

\* a caller computes the key of its text, and the key of that key
NormalizeKey ==
    /\ nkKey = NoKey
    /\ \E k \in {normalizeCacheKey(nkInput)} :
            /\ nkKey' = k
            /\ nkKeyAgain' = normalizeCacheKey(k)
            /\ nkVariantKey' = k
    /\ nkVariant' = nkInput
    /\ UNCHANGED nkInput

\* a second caller computes the key of the variation v
Vary(v) ==
    /\ nkKey # NoKey
    /\ nkVariant' = v
    /\ nkVariantKey' = normalizeCacheKey(v)
    /\ UNCHANGED <<nkInput, nkKey, nkKeyAgain>>

\* the variation differs in the case of one letter
ChangeCase(i) ==
    /\ IsLetter(nkVariant[i].ch)
    /\ Vary([nkVariant EXCEPT ![i].ch = OtherCase(@)])

\* ... in one more stripped punctuation character, after position i
InsertPunctuation(i, c) ==
    /\ Len(nkVariant) < MaxKeyLen
    /\ Vary(InsertAt(nkVariant, i, c))

\* ... in one stripped punctuation character less
DeletePunctuation(i) ==
    /\ nkVariant[i].ch \in Punctuation
    /\ Vary(RemoveAt(nkVariant, i))

\* ... in one more whitespace character in front or at the end
PadWhitespace(front, c) ==
    /\ Len(nkVariant) < MaxKeyLen
    /\ Vary(InsertAt(nkVariant, IF front THEN 0 ELSE Len(nkVariant), c))

\* ... in one leading or trailing whitespace character less
UnpadWhitespace(front) ==
    /\ nkVariant # <<>>
    /\ \E i \in {IF front THEN 1 ELSE Len(nkVariant)} :
            /\ IsSpace(nkVariant[i].ch)
            /\ Vary(RemoveAt(nkVariant, i))

\* ... in a whitespace run one character longer
StretchWhitespace(i, c) ==
    /\ Len(nkVariant) < MaxKeyLen
    /\ IsSpace(nkVariant[i].ch)
    /\ Vary(InsertAt(nkVariant, i, c))

\* ... in a whitespace run one character shorter
ShrinkWhitespace(i) ==
    /\ i + 1 \in DOMAIN nkVariant
    /\ IsSpace(nkVariant[i].ch)
    /\ IsSpace(nkVariant[i + 1].ch)
    /\ Vary(RemoveAt(nkVariant, i))

NormNext ==
    \/ NormalizeKey /\ UNCHANGED notNorm
    \/ \E i \in DOMAIN nkVariant : ChangeCase(i) /\ UNCHANGED notNorm
    \/ \E i \in 0..Len(nkVariant), c \in KeyAlphabet \cap Punctuation :
            InsertPunctuation(i, c) /\ UNCHANGED notNorm
    \/ \E i \in DOMAIN nkVariant : DeletePunctuation(i) /\ UNCHANGED notNorm
    \/ \E front \in BOOLEAN, c \in {k \in KeyAlphabet : IsSpace(k)} :
            PadWhitespace(front, c) /\ UNCHANGED notNorm
    \/ \E front \in BOOLEAN : UnpadWhitespace(front) /\ UNCHANGED notNorm
    \/ \E i \in DOMAIN nkVariant, c \in {k \in KeyAlphabet : IsSpace(k)} :
            StretchWhitespace(i, c) /\ UNCHANGED notNorm
    \/ \E i \in DOMAIN nkVariant : ShrinkWhitespace(i) /\ UNCHANGED notNorm

NormSpec == NormInit /\ [][NormNext]_vars

---------------------------------------------------------------------------
(* Properties of normalizeCacheKey.                                        *)

\* C11: normalizing a key once more leaves it as it is:
\* normalizeCacheKey(normalizeCacheKey(s)) = normalizeCacheKey(s) for every
\* text s, punctuation next to whitespace included.
C11_NormalizeIdempotent ==
    nkKey # NoKey => Expand(nkKeyAgain) = Expand(nkKey)

\* C12: two texts that differ only in letter case, in stripped punctuation,
\* in leading or trailing whitespace or in the length of whitespace runs
\* have the same key, and the key of "" is "".
C12_VariationsShareKey ==
    /\ nkKey # NoKey => Expand(nkVariantKey) = Expand(nkKey)
    /\ (nkKey # NoKey /\ nkInput = <<>>) => nkKey = <<>>

---------------------------------------------------------------------------
(* lib/cache.ts: the Redis client, getCache, setCache.                     *)

\* the TTL handed to SETEX, in seconds
CacheTTLSeconds == 21600

\* process.env of the cache: each variable unset, empty or set
CacheEnvironments ==
    [ UPSTASH_REDIS_REST_URL   : {JUndef, JStr(<<>>), JStr(Literal("https://cache.upstash.io"))},
      UPSTASH_REDIS_REST_TOKEN : {JUndef, JStr(<<>>), JStr(Literal("token"))} ]

\* getRedisClient(): the client it returns ("null" for none); the module's
\* redisClient is that value afterwards.  constructed: new Redis(...) did
\* not throw.
getRedisClient(constructed) ==
    IF redisClient # "null" THEN redisClient
    ELSE IF \/ ~Truthy(cacheEnv.UPSTASH_REDIS_REST_URL)
            \/ ~Truthy(cacheEnv.UPSTASH_REDIS_REST_TOKEN)
         THEN "null"
    ELSE IF constructed THEN "client"
    ELSE "null"

\* Redis GET at time t: the value of an entry that has not expired, or null
RedisGet(key, t) ==
    IF kv[key].present /\ t < kv[key].expiresAt THEN JStr(Literal(kv[key].value))
    ELSE JNull

\* Redis SETEX at time t: the entry replaces what was there and expires
\* seconds later
RedisSetex(key, seconds, value, t) ==
    [kv EXCEPT ![key] = [present |-> TRUE, value |-> value, expiresAt |-> t + seconds]]

CacheInit ==
    /\ cacheEnv \in CacheEnvironments
    /\ redisClient = "null"
    /\ kv = [k \in CacheKeys |-> NoEntry]
    /\ cacheNow = 0
    /\ cacheTicks = 0
    /\ cacheCall = NoCacheCall
    /\ ChatIdle
    /\ NormIdle
    /\ SeqIdle
    /\ MockIdle
    /\ ConcIdle
    /\ UploadIdle
    /\ AnalyzeIdle
    /\ UiIdle
    /\ ClientIdle
    /\ DeadlineIdle
    /\ RoutesIdle

\* faulty variant: no try/catch around client.get
getCacheWithoutCatch(key, constructed, answered) ==
    /\ \E client \in {getRedisClient(constructed)} :
        /\ redisClient' = client
        /\ cacheCall' =
              [op |-> "get", key |-> key, value |-> "", at |-> cacheNow, before |-> kv[key],
               network |-> IF client = "null" THEN "none"
                           ELSE IF answered THEN "ok" ELSE "failed",
               threw |-> client # "null" /\ ~answered,
               result |-> IF client = "null" THEN JNull
                          ELSE IF answered THEN RedisGet(key, cacheNow)
                          ELSE JUndef]
    /\ UNCHANGED <<cacheEnv, kv, cacheNow, cacheTicks>>

\* getCache(key).  answered: the store answered the request.
getCache(key, constructed, answered) ==
    /\ \E client \in {getRedisClient(constructed)} :
        /\ redisClient' = client
        /\ cacheCall' =
              [op |-> "get", key |-> key, value |-> "", at |-> cacheNow, before |-> kv[key],
               network |-> IF client = "null" THEN "none"
                           ELSE IF answered THEN "ok" ELSE "failed",
               threw |-> FALSE,
               result |-> IF client = "null" THEN JNull
                          ELSE IF answered THEN RedisGet(key, cacheNow)
                          ELSE JNull]
    /\ UNCHANGED <<cacheEnv, kv, cacheNow, cacheTicks>>

\* faulty variant: client.set(key, value), no expiry
setCacheWithoutExpiry(key, value, constructed, answered) ==
    /\ \E client \in {getRedisClient(constructed)} :
        /\ redisClient' = client
        /\ kv' = IF client # "null" /\ answered
                 THEN [kv EXCEPT ![key] =
                          [present |-> TRUE, value |-> value,
                           expiresAt |-> IF @.present THEN @.expiresAt
                                         ELSE cacheNow + 2 * CacheTTLSeconds]]
                 ELSE kv
        /\ cacheCall' =
              [op |-> "set", key |-> key, value |-> value, at |-> cacheNow, before |-> kv[key],
               network |-> IF client = "null" THEN "none"
                           ELSE IF answered THEN "ok" ELSE "failed",
               threw |-> FALSE,
               result |-> JUndef]
    /\ UNCHANGED <<cacheEnv, cacheNow, cacheTicks>>

\* setCache(key, value).  answered: the store carried the request out.
setCache(key, value, constructed, answered) ==
    /\ \E client \in {getRedisClient(constructed)} :
        /\ redisClient' = client
        /\ kv' = IF client # "null" /\ answered
                 THEN RedisSetex(key, CacheTTLSeconds, value, cacheNow)
                 ELSE kv
        /\ cacheCall' =
              [op |-> "set", key |-> key, value |-> value, at |-> cacheNow, before |-> kv[key],
               network |-> IF client = "null" THEN "none"
                           ELSE IF answered THEN "ok" ELSE "failed",
               threw |-> FALSE,
               result |-> JUndef]
    /\ UNCHANGED <<cacheEnv, cacheNow, cacheTicks>>

\* time passes between two calls: a second, or a second less than the TTL
CacheTick(seconds) ==
    /\ cacheTicks < MaxCacheTicks
    /\ cacheTicks' = cacheTicks + 1
    /\ cacheNow' = cacheNow + seconds
    /\ UNCHANGED <<cacheEnv, redisClient, kv, cacheCall>>

CacheNext ==
    \/ \E key \in CacheKeys, constructed \in BOOLEAN, answered \in BOOLEAN :
            getCache(key, constructed, answered) /\ UNCHANGED notCache
    \/ \E key \in CacheKeys, value \in CacheValues,
          constructed \in BOOLEAN, answered \in BOOLEAN :
            setCache(key, value, constructed, answered) /\ UNCHANGED notCache
    \/ \E seconds \in {1, CacheTTLSeconds - 1} :
            CacheTick(seconds) /\ UNCHANGED notCache

CacheSpec == CacheInit /\ [][CacheNext]_vars

---------------------------------------------------------------------------
(* Properties of getCache and setCache.                                    *)

CacheConfigured ==
    /\ Truthy(cacheEnv.UPSTASH_REDIS_REST_URL)
    /\ Truthy(cacheEnv.UPSTASH_REDIS_REST_TOKEN)

\* the entry had not expired when the last call was made
FreshBefore == cacheCall.before.present /\ cacheCall.at < cacheCall.before.expiresAt

\* C13: getCache never throws; it returns the stored value when the store
\* answers and the key is present and unexpired, and null when the key is
\* missing or expired, when the URL or the token is not configured (no
\* request is made to the store then) and when the request fails.
C13_GetCacheValueOrNull ==
    cacheCall.op = "get" =>
        /\ ~cacheCall.threw
        /\ (cacheCall.network = "ok" /\ FreshBefore) =>
               cacheCall.result = JStr(Literal(cacheCall.before.value))
        /\ (cacheCall.network = "ok" /\ ~FreshBefore) => cacheCall.result = JNull
        /\ ~CacheConfigured => (cacheCall.result = JNull /\ cacheCall.network = "none")
        /\ cacheCall.network = "failed" => cacheCall.result = JNull
        /\ cacheCall.network = "none" => cacheCall.result = JNull

\* a value stored earlier is read back before it expires
C13_Witness ==
    /\ cacheCall.op = "get"
    /\ cacheCall.at > cacheCall.before.expiresAt - CacheTTLSeconds
    /\ cacheCall.result = JStr(Literal("second answer"))

\* C14: setCache stores the value with an expiry exactly 21600 seconds
\* after the call, whatever was stored before (the expiry starts anew); it
\* never throws and leaves the store alone when the write fails or the
\* configuration is missing; getCache returns no value whose expiry has
\* passed.
C14_SetCacheExpiresAfterTTL ==
    /\ cacheCall.op = "set" =>
          /\ ~cacheCall.threw
          /\ cacheCall.network = "ok" =>
                 kv[cacheCall.key] =
                     [present |-> TRUE, value |-> cacheCall.value,
                      expiresAt |-> cacheCall.at + 21600]
          /\ cacheCall.network # "ok" => kv[cacheCall.key] = cacheCall.before
          /\ ~CacheConfigured => cacheCall.network = "none"
    /\ (cacheCall.op = "get" /\ cacheCall.result.type = "string") =>
          /\ kv[cacheCall.key].present
          /\ cacheCall.at < kv[cacheCall.key].expiresAt
    /\ \A k \in CacheKeys : kv[k].present => kv[k].expiresAt <= cacheNow + 21600

\* a value is overwritten later on, and its expiry starts anew
C14_Witness ==
    /\ cacheCall.op = "set"
    /\ cacheCall.network = "ok"
    /\ cacheCall.before.present
    /\ cacheCall.before.value # cacheCall.value
    /\ cacheCall.before.expiresAt < kv[cacheCall.key].expiresAt

---------------------------------------------------------------------------
(* Properties of /api/chat and the cache together.                         *)

\* the current prompt and the previous one have the same cache key
SamePromptAsBefore ==
    /\ prev.served
    /\ req.message.type = "string"
    /\ Expand(normalizeCacheKey(req.message.str)) =
           Expand(normalizeCacheKey(prev.req.message.str))

\* C15: the handler reads the cache before it contacts the upstream and
\* writes it after a successful upstream answer; a prompt that was answered
\* by the upstream before is answered again with source "cache", the same
\* text and no further upstream call.
C15_SecondPromptServedFromCache ==
    /\ fetchCalls > 0 => cacheCall.op # "none"
    /\ (pc = "done" /\ res.source = UpstreamSource) => cacheCall.op = "set"
    /\ (pc = "done" /\ SamePromptAsBefore /\ prev.res.source = UpstreamSource) =>
          /\ res.source = "cache"
          /\ res.response = prev.res.response
          /\ fetchCalls = prev.fetchCalls

---------------------------------------------------------------------------
(* lib/mockResponses: getMockResponse called on its own.                   *)

\* the words prompts are made of: the five keywords in some case, and
\* words that are no keyword
MockWords ==
    { <<"C", "o", "u", "r", "s", "e", "s">>,
      <<"R", "E", "C", "E", "N", "T", " ", "J", "O", "B", "S">>,
      <<"t", "e", "r", "m", "s">>,
      <<"P", "r", "o", "j", "e", "c", "t", " ", "P", "l", "a", "n", "n", "i", "n", "g">>,
      <<"l", "e", "a", "r", "n", "i", "n", "g", " ", "r", "e", "s", "o", "u", "r", "c", "e", "s">>,
      <<"C", "o", "u", "r", "s", "e">>,
      <<"J", "o", "b", "s">>,
      <<"H", "i", "?">> }

\* the words of ws with a blank between two
RECURSIVE JoinWords(_)
JoinWords(ws) ==
    IF ws = <<>> THEN <<>>
    ELSE IF Len(ws) = 1 THEN ws[1]
    ELSE ws[1] \o <<" ">> \o JoinWords(Tail(ws))

MockPrompts ==
    UNION {{Chars(JoinWords(ws)) : ws \in [1..k -> MockWords]} : k \in 0..MaxPromptWords}

MockInit ==
    /\ mkPrompt \in MockPrompts
    /\ mkResult = NoKey
    /\ ChatIdle
    /\ NormIdle
    /\ CacheIdle
    /\ SeqIdle
    /\ ConcIdle
    /\ UploadIdle
    /\ AnalyzeIdle
    /\ UiIdle
    /\ ClientIdle
    /\ DeadlineIdle
    /\ RoutesIdle

\* await getMockResponse(mkPrompt): the delay passes, the promise resolves
MockCall(r) ==
    /\ mkResult = NoKey
    /\ mkResult' = getMockResponse(mkPrompt, r)
    /\ UNCHANGED mkPrompt

\* the caller comes back with another prompt
MockReset(prompt) ==
    /\ mkResult # NoKey
    /\ mkPrompt' = prompt
    /\ mkResult' = NoKey

MockNext ==
    \/ \E r \in 0..(NumGenericResponses - 1) : MockCall(r) /\ UNCHANGED notMock
    \/ \E prompt \in MockPrompts : MockReset(prompt) /\ UNCHANGED notMock

MockSpec == MockInit /\ [][MockNext]_vars

---------------------------------------------------------------------------
(* Properties of getMockResponse.                                          *)

\* the keywords in the order they are tried, each with the heading of its
\* canned text
KeywordOrder ==
    << [keyword |-> <<"c", "o", "u", "r", "s", "e", "s">>,
        text    |-> "**Available Courses** ..."],
       [keyword |-> <<"r", "e", "c", "e", "n", "t", " ", "j", "o", "b", "s">>,
        text    |-> "**Recent Job Opportunities** ..."],
       [keyword |-> <<"t", "e", "r", "m", "s">>,
        text    |-> "**Technical Terms & Concepts** ..."],
       [keyword |-> <<"p", "r", "o", "j", "e", "c", "t", " ",
                      "p", "l", "a", "n", "n", "i", "n", "g">>,
        text    |-> "**Project Planning & Management** ..."],
       [keyword |-> <<"l", "e", "a", "r", "n", "i", "n", "g", " ",
                      "r", "e", "s", "o", "u", "r", "c", "e", "s">>,
        text    |-> "**Learning Resources & Tutorials** ..."] >>

\* the prompt contains the keyword, in whatever case
Mentions(prompt, keyword) == Includes(ToLowerCase(prompt), keyword)

MentionsNoKeyword(prompt) ==
    \A i \in DOMAIN KeywordOrder : ~Mentions(prompt, KeywordOrder[i].keyword)

\* s occurs in t, run by run
Embeds(t, s) == \E i \in 0..(Len(t) - Len(s)) : SubSeq(t, i + 1, i + Len(s)) = s

\* C16: keywords are matched case-insensitively in the order courses,
\* recent jobs, terms, project planning, learning resources; the answer is
\* the canned text of the first keyword the prompt contains, whatever other
\* keywords it contains; a prompt containing "courses" gets the text headed
\* "Available Courses".
C16_FirstKeywordWins ==
    mkResult # NoKey =>
        /\ \A i \in DOMAIN KeywordOrder :
              ( /\ Mentions(mkPrompt, KeywordOrder[i].keyword)
                /\ \A j \in 1..(i - 1) : ~Mentions(mkPrompt, KeywordOrder[j].keyword) )
              => mkResult = Literal(KeywordOrder[i].text)
        /\ Mentions(mkPrompt, <<"c", "o", "u", "r", "s", "e", "s">>)
              => mkResult = Literal("**Available Courses** ...")

\* a prompt with "Courses" after an upper-case "RECENT JOBS" is answered
C16_Witness ==
    /\ mkResult = Literal("**Available Courses** ...")
    /\ Mentions(mkPrompt, <<"r", "e", "c", "e", "n", "t", " ", "j", "o", "b", "s">>)
    /\ ~Includes(mkPrompt, <<"c", "o", "u", "r", "s", "e", "s">>)
    /\ Expand(mkPrompt)[1] = "R"

\* C17: getMockResponse resolves with a non-empty string for every prompt;
\* when the prompt contains no keyword the answer is one of three generic
\* templates and embeds the prompt as typed, not lowercased.
C17_AlwaysAnswersGenericEmbedsPrompt ==
    mkResult # NoKey =>
        /\ StrLen(mkResult) > 0
        /\ \A i \in DOMAIN mkResult : mkResult[i].n >= 1 /\ mkResult[i].ch # ""
        /\ MentionsNoKeyword(mkPrompt) =>
              /\ Embeds(mkResult, mkPrompt)
              /\ Head(mkResult).ch \in
                     { "Thank you for your question: \"",
                       "I understand you're asking about \"",
                       "That's an interesting query about \"" }
              /\ Len(mkResult) = Len(mkPrompt) + 2

\* a prompt with upper-case letters and no keyword is answered
C17_Witness ==
    /\ mkResult # NoKey
    /\ MentionsNoKeyword(mkPrompt)
    /\ mkPrompt # ToLowerCase(mkPrompt)
    /\ Head(mkResult).ch = "That's an interesting query about \""

---------------------------------------------------------------------------
(* Properties of /api/chat without an upstream URL.                        *)

\* C18: while LAMBDA_FUNCTION_URL is not configured the handler makes no
\* upstream call, and every validated request is answered by the mock:
\* status 200, source "mock", error "Lambda error".
C18_UnconfiguredMeansMock ==
    ~Truthy(env.LAMBDA_FUNCTION_URL) =>
        /\ fetchCalls = 0
        /\ ~fetchBody.sent
        /\ pc \notin {"fetch", "body"}
        /\ Validated => pc \in {"mock", "done"}
        /\ (Validated /\ pc = "done") =>
              /\ res.status = 200
              /\ res.source = "mock"
              /\ res.error = "Lambda error"
              /\ mockCalls = 1

\* a validated request is answered while the URL is the empty string
C18_Witness ==
    /\ env.LAMBDA_FUNCTION_URL = JStr(<<>>)
    /\ Validated
    /\ pc = "done"
    /\ res.source = "mock"

---------------------------------------------------------------------------
(* Properties of /api/chat with requests in flight together.               *)

\* the name of the error behind an upstream outcome
ErrorOfOutcome(how) ==
    CASE how = "abort" -> "AbortError"
      [] how = "syntax" -> "SyntaxError"
      [] how \in {"network", "null"} -> "TypeError"
      [] OTHER -> "Error"

\* the response of a request from what is its own: its body, how its own
\* upstream exchange ended and with which payload, its random pick
OwnResponse(h) ==
    IF Validate(h.req.message) # "ok"
    THEN ErrorBody(400, ValidationError(Validate(h.req.message)))
    ELSE IF h.outcome = "object"
    THEN SuccessBody(h.req, h.lambdaData, h.doneAt)
    ELSE FallbackBody(h.req, getMockResponse(h.req.message.str, h.pick),
                      ErrorOfOutcome(h.outcome), h.doneAt)

\* how the upstream exchange of a request ended is its own affair: an abort
\* only after its own timer fired, an answer only from an answering endpoint
OwnOutcome(h) ==
    /\ h.outcome = "abort" => h.timeoutId = "fired"
    /\ h.outcome \in {"status", "network", "object", "null", "syntax"} =>
          h.upstream = "answering"
    /\ h.outcome = "unconfigured" => ~Truthy(env.LAMBDA_FUNCTION_URL)
    /\ h.fetchCalls <= 1
    /\ h.mockCalls <= 1

\* a step of one request leaves the locals of every other request alone
StepOfOneRequest ==
    \A i \in Requests :
        handlers'[i] # handlers[i] =>
            \A j \in Requests \ {i} : handlers'[j] = handlers[j]

\* C19: with requests in flight together, under every interleaving of
\* their awaits, the status, source, error tag and text of each response
\* follow from the request's own body and its own upstream outcome, and no
\* step of one request (its timeout, its failure) changes another request.
C19_RequestsAreIsolated ==
    /\ [](\A i \in Requests :
            /\ OwnOutcome(handlers[i])
            /\ handlers[i].pc = "done" =>
                  /\ handlers[i].res.status = OwnResponse(handlers[i]).status
                  /\ handlers[i].res.source = OwnResponse(handlers[i]).source
                  /\ handlers[i].res.error = OwnResponse(handlers[i]).error
                  /\ handlers[i].res.response = OwnResponse(handlers[i]).response)
    /\ [][StepOfOneRequest]_vars

\* request 1 timed out and was answered by the mock; request 2, which came
\* in while request 1 was in flight, was answered by the upstream
C19_Witness ==
    /\ handlers[1].pc = "done"
    /\ handlers[1].res.error = "Lambda timeout"
    /\ handlers[2].pc = "done"
    /\ handlers[2].overlapped
    /\ handlers[2].res.source = UpstreamSource

---------------------------------------------------------------------------
(* /api/upload-proxy: POST.                                                *)

\* 10 * 1024 * 1024
MaxUploadBytes == 10485760

allowedTypes ==
    << "application/pdf", "application/msword",
       "application/vnd.openxmlformats-officedocument.wordprocessingml.document",
       "text/plain" >>

\* allowedTypes.includes(type)
TypeAllowed(type) == \E i \in DOMAIN allowedTypes : allowedTypes[i] = type

\* a text field and a File of a form; a File's name is given by its parts
\* between the dots
TextField(text) == [kind |-> "string", text |-> text, type |-> "", size |-> 0, name |-> <<>>]

FileField(type, size, name) ==
    [kind |-> "file", text |-> "", type |-> type, size |-> size, name |-> name]

\* !field
FieldFalsy(f) == f.kind = "null" \/ (f.kind = "string" /\ f.text = "")

\* file.type: a text field has none
TypeOf(f) == IF f.kind = "file" THEN f.type ELSE "undefined"

\* file.size > 10 * 1024 * 1024: false for a text field, which has no size
TooLarge(f) == f.kind = "file" /\ f.size > MaxUploadBytes

\* file.name.split('.').pop()
FileExtension(f) == IF f.name = <<>> THEN "undefined" ELSE f.name[Len(f.name)]

\* `${conversationId}` inside the key
KeyText(f) == IF f.kind = "file" THEN "[object File]" ELSE f.text

s3Key(form, timestamp) ==
    [conversationId |-> KeyText(form.conversationId), timestamp |-> timestamp,
     fileExtension |-> FileExtension(form.file)]

UploadError(status, text) ==
    [status |-> status, error |-> text, success |-> FALSE, s3Key |-> NoKeyBuilt]

FileFields ==
    {NoField, TextField(""), TextField("my resume")}
    \cup
    { FileField(type, size, name) :
        type \in {allowedTypes[i] : i \in DOMAIN allowedTypes} \cup {"image/png", ""},
        size \in {0, MaxUploadBytes - 1, MaxUploadBytes, MaxUploadBytes + 1},
        name \in {<<"cv", "pdf">>, <<"cv">>} }

ConversationFields == {NoField, TextField(""), TextField("conv-1")}

\* what request.formData() can give: a rejection (the body is no form), or
\* a form
UploadForms ==
    {NoForm}
    \cup
    [parsed : {TRUE}, file : FileFields, conversationId : ConversationFields]

UploadInit ==
    /\ upPc = "idle"
    /\ upForm = NoForm
    /\ upKey = NoKeyBuilt
    /\ upRes = NoUploadResponse
    /\ s3Puts = 0
    /\ s3Failed = FALSE
    /\ bucket = {}
    /\ ChatIdle
    /\ NormIdle
    /\ CacheIdle
    /\ SeqIdle
    /\ MockIdle
    /\ ConcIdle
    /\ AnalyzeIdle
    /\ UiIdle
    /\ ClientIdle
    /\ DeadlineIdle
    /\ RoutesIdle

\* return NextResponse.json(body, {status})
UploadRespond(body) ==
    /\ upRes' = body
    /\ upPc' = "done"

\* faulty variant: the size check is missing
UploadReceiveWithoutSizeCheck(form, t) ==
    /\ upPc = "idle"
    /\ upForm' = form
    /\ now' = t
    /\ UNCHANGED <<s3Puts, s3Failed, bucket>>
    /\ IF ~form.parsed
       THEN UploadRespond(UploadError(500, "Failed to upload file")) /\ UNCHANGED upKey
       ELSE IF FieldFalsy(form.file) \/ FieldFalsy(form.conversationId)
       THEN /\ UploadRespond(UploadError(400, "File and conversationId are required"))
            /\ UNCHANGED upKey
       ELSE IF ~TypeAllowed(TypeOf(form.file))
       THEN /\ UploadRespond(UploadError(400, "Invalid file type. Only PDF, Word documents, and text files are allowed."))
            /\ UNCHANGED upKey
       ELSE /\ upKey' = s3Key(form, t)
            /\ upPc' = "buffer"
            /\ UNCHANGED upRes

\* POST from `await request.formData()` to `await file.arrayBuffer()` or a
\* return
UploadReceive(form, t) ==
    /\ upPc = "idle"
    /\ upForm' = form
    /\ now' = t
    /\ UNCHANGED <<s3Puts, s3Failed, bucket>>
    /\ IF ~form.parsed
       THEN UploadRespond(UploadError(500, "Failed to upload file")) /\ UNCHANGED upKey
       ELSE IF FieldFalsy(form.file) \/ FieldFalsy(form.conversationId)
       THEN /\ UploadRespond(UploadError(400, "File and conversationId are required"))
            /\ UNCHANGED upKey
       ELSE IF ~TypeAllowed(TypeOf(form.file))
       THEN /\ UploadRespond(UploadError(400, "Invalid file type. Only PDF, Word documents, and text files are allowed."))
            /\ UNCHANGED upKey
       ELSE IF TooLarge(form.file)
       THEN /\ UploadRespond(UploadError(400, "File size must be less than 10MB."))
            /\ UNCHANGED upKey
       ELSE /\ upKey' = s3Key(form, t)
            /\ upPc' = "buffer"
            /\ UNCHANGED upRes

\* file.arrayBuffer() resolves: the PutObjectCommand is sent
BufferResolves(t) ==
    /\ upPc = "buffer"
    /\ now' = t
    /\ s3Puts' = s3Puts + 1
    /\ upPc' = "send"
    /\ UNCHANGED <<upForm, upKey, upRes, s3Failed, bucket>>

\* file.arrayBuffer() rejects: the catch
BufferRejects(t) ==
    /\ upPc = "buffer"
    /\ now' = t
    /\ UploadRespond(UploadError(500, "Failed to upload file"))
    /\ UNCHANGED <<upForm, upKey, s3Puts, s3Failed, bucket>>

\* s3Client.send(command) resolves: the object is in the bucket
SendResolves(t) ==
    /\ upPc = "send"
    /\ now' = t
    /\ bucket' = bucket \cup {upKey}
    /\ UploadRespond([status |-> 200, error |-> "", success |-> TRUE, s3Key |-> upKey])
    /\ UNCHANGED <<upForm, upKey, s3Puts, s3Failed>>

\* s3Client.send(command) rejects: the catch
SendRejects(t) ==
    /\ upPc = "send"
    /\ now' = t
    /\ s3Failed' = TRUE
    /\ UploadRespond(UploadError(500, "Failed to upload file"))
    /\ UNCHANGED <<upForm, upKey, s3Puts, bucket>>

UploadNext ==
    \/ \E form \in UploadForms, t \in now..MaxClock :
            UploadReceive(form, t) /\ UNCHANGED notUpload
    \/ \E t \in now..MaxClock : BufferResolves(t) /\ UNCHANGED notUpload
    \/ \E t \in now..MaxClock : BufferRejects(t) /\ UNCHANGED notUpload
    \/ \E t \in now..MaxClock : SendResolves(t) /\ UNCHANGED notUpload
    \/ \E t \in now..MaxClock : SendRejects(t) /\ UNCHANGED notUpload

UploadSpec == UploadInit /\ [][UploadNext]_vars

---------------------------------------------------------------------------
(* Properties of /api/upload-proxy.                                        *)

\* the form has a file and a conversation id
BothPresent ==
    /\ upForm.file.kind = "file" \/ (upForm.file.kind = "string" /\ upForm.file.text # "")
    /\ upForm.conversationId.kind = "string" /\ upForm.conversationId.text # ""

\* the file is a PDF, a .doc, a .docx or plain text
OfAllowedType ==
    /\ upForm.file.kind = "file"
    /\ upForm.file.type \in
          { "application/pdf", "application/msword",
            "application/vnd.openxmlformats-officedocument.wordprocessingml.document",
            "text/plain" }

WithinSizeLimit == upForm.file.size <= 10 * 1024 * 1024

---------------------------------------------------------------------------
(* /api/analyze: the POST handler of the resume analysis route.  The       *)
(* handler validates the three fields of the body, answers a canned        *)
(* analysis when no endpoint is configured, and otherwise calls the        *)
(* endpoint and maps its outputText to the analysis it returns.            *)

\* a string with a value spliced in by a template literal
ATemplate(s, v) == [kind |-> "string", items |-> <<v>>, text |-> Literal(s)]

\* JavaScript truthiness of a value inside the analysis
ATruthy(v) == v.kind = "array" \/ (v.kind = "string" /\ v.text # <<>>)

\* v || []
AOrEmpty(v) == IF ATruthy(v) THEN v ELSE AList(<<>>)

\* what JSON.parse gives: a SyntaxError, null, a number, or an object
Parsed(kind, roles, missing, projects, courses) ==
    [kind |-> kind, roles |-> roles, missing_skills |-> missing,
     projects |-> projects, courses |-> courses]

NoFields(kind) == Parsed(kind, AUndef, AUndef, AUndef, AUndef)

\* an element of `projects`
Project(kind, title, description) ==
    [kind |-> kind, title |-> title, description |-> description]

\* the texts the endpoint may put in outputText
OutputTextTable ==
    [t \in {"Here is my analysis of the resume.", "", "null", "42", "{}",
            "{\"roles\":[\"Data Analyst\"],\"missing_skills\":[\"SQL\"],\"projects\":[{\"title\":\"Dashboard\",\"description\":\"Sales charts\"}],\"courses\":[\"Statistics\"]}",
            "{\"roles\":\"Data Analyst\",\"projects\":[{\"title\":\"Dashboard\"}]}",
            "{\"projects\":\"none\"}",
            "{\"projects\":[null]}"} |->
        CASE t = "Here is my analysis of the resume." -> NoFields("SyntaxError")
          [] t = "" -> NoFields("SyntaxError")
          [] t = "null" -> NoFields("null")
          [] t = "42" -> NoFields("number")
          [] t = "{}" -> NoFields("object")
          [] t = "{\"roles\":[\"Data Analyst\"],\"missing_skills\":[\"SQL\"],\"projects\":[{\"title\":\"Dashboard\",\"description\":\"Sales charts\"}],\"courses\":[\"Statistics\"]}" ->
                Parsed("object", AList(<<"Data Analyst">>), AList(<<"SQL">>),
                       AList(<<Project("object", JStr(Literal("Dashboard")),
                                       JStr(Literal("Sales charts")))>>),
                       AList(<<"Statistics">>))
          [] t = "{\"roles\":\"Data Analyst\",\"projects\":[{\"title\":\"Dashboard\"}]}" ->
                Parsed("object", AText(Literal("Data Analyst")), AUndef,
                       AList(<<Project("object", JStr(Literal("Dashboard")), JUndef)>>),
                       AUndef)
          [] t = "{\"projects\":\"none\"}" ->
                Parsed("object", AUndef, AUndef, AText(Literal("none")), AUndef)
          [] t = "{\"projects\":[null]}" ->
                Parsed("object", AUndef, AUndef,
                       AList(<<Project("null", JUndef, JUndef)>>), AUndef)]

OutputTexts == {JUndef} \cup {JStr(Literal(t)) : t \in DOMAIN OutputTextTable}

\* JSON.parse(analysisResult.outputText): undefined is read as the text
\* "undefined", which is not JSON
JsonParse(v) ==
    CASE v.type = "undefined" -> NoFields("SyntaxError")
      [] v.str = <<>>         -> OutputTextTable[""]
      [] OTHER                -> OutputTextTable[v.str[1].ch]

\* `${v}` for a value of a project
TemplateText(v) == IF v.type = "string" THEN v.str ELSE Literal("undefined")

\* parsedAnalysis.projects.map(p => `${p.title}: ${p.description}`) throws
\* when projects has no map or an element is null
MapThrows(projects) ==
    \/ projects.kind = "string"
    \/ \E i \in DOMAIN projects.items : projects.items[i].kind = "null"

ProjectIdeas(projects) ==
    AList([i \in DOMAIN projects.items |->
             TemplateText(projects.items[i].title) \o Literal(": ")
                 \o TemplateText(projects.items[i].description)])

\* the try/catch around JSON.parse: the object used when parsing throws
parsedAnalysis(outputText) ==
    IF JsonParse(outputText).kind = "SyntaxError"
    THEN [kind |-> "object",
          insights |-> IF outputText.type = "string" THEN AText(outputText.str) ELSE AUndef,
          recommendedRoles |-> AList(<<>>), missingSkills |-> AList(<<>>),
          projectIdeas |-> AList(<<>>), relevantCourses |-> AList(<<>>),
          roles |-> AUndef, missing_skills |-> AUndef, projects |-> AUndef,
          courses |-> AUndef]
    ELSE [kind |-> JsonParse(outputText).kind,
          insights |-> AUndef,
          recommendedRoles |-> AUndef, missingSkills |-> AUndef,
          projectIdeas |-> AUndef, relevantCourses |-> AUndef,
          roles |-> JsonParse(outputText).roles,
          missing_skills |-> JsonParse(outputText).missing_skills,
          projects |-> JsonParse(outputText).projects,
          courses |-> JsonParse(outputText).courses]

\* reading a property of null throws; so does a bad projects.map
FormatThrows(p) == p.kind = "null" \/ (ATruthy(p.projects) /\ MapThrows(p.projects))

formattedAnalysis(p) ==
    [insights |-> AText(Literal("Resume analyzed successfully!")),
     recommendedRoles |-> AOrEmpty(p.roles),
     missingSkills |-> AOrEmpty(p.missing_skills),
     projectIdeas |-> IF ATruthy(p.projects) THEN ProjectIdeas(p.projects) ELSE AList(<<>>),
     relevantCourses |-> AOrEmpty(p.courses)]

\* the canned analysis of the unconfigured and of the failed endpoint
CannedAnalysis(key, note) ==
    [insights |-> ATemplate(note, key),
     recommendedRoles |-> AList(<<"Software Engineer", "Data Analyst", "Product Manager">>),
     missingSkills |-> AList(<<"Cloud Computing", "Machine Learning", "Project Management">>),
     projectIdeas |-> AList(<<"Build a web application",
                              "Create a data visualization dashboard",
                              "Develop a mobile app">>),
     relevantCourses |-> AList(<<"AWS Cloud Practitioner", "Python for Data Science",
                                 "Agile Project Management">>)]

AnalyzeError(status, error) ==
    [status |-> status, error |-> error, success |-> FALSE, warning |-> "",
     analysis |-> NoAnalysis, s3Key |-> JUndef, timestamp |-> 0 - 1]

AnalyzeSuccess(analysis, key, t, warning) ==
    [status |-> 200, error |-> "", success |-> TRUE, warning |-> warning,
     analysis |-> analysis, s3Key |-> key, timestamp |-> t]

\* the response of the inner catch
AnalyzeFallback(key, t) ==
    AnalyzeSuccess(CannedAnalysis(key, "External analysis endpoint is not available"),
                   key, t, "External analysis endpoint not available")

\* the bodies a client may post
AnalyzeBodies ==
    {[kind |-> k, s3Key |-> JUndef, userPrompt |-> JUndef, conversationId |-> JUndef] :
        k \in {"malformed", "null", "number"}}
    \cup
    [kind : {"object"},
     s3Key : {JUndef, JStr(<<>>), JStr(Literal("resumes/c1/1.pdf"))},
     userPrompt : {JUndef, JStr(Literal(" ")), JStr(Literal(" plan my career ")), JNum(5)},
     conversationId : {JUndef, JNull, JStr(Literal("c1"))}]

AnalyzeEndpoints == {JUndef, JStr(<<>>), JStr(Literal("https://analyze.example/run"))}

AnalyzePayloads ==
    {[isNull |-> TRUE, outputText |-> JUndef]}
    \cup {[isNull |-> FALSE, outputText |-> t] : t \in OutputTexts}

AnalyzeInit ==
    /\ ChatIdle
    /\ NormIdle
    /\ CacheIdle
    /\ SeqIdle
    /\ MockIdle
    /\ ConcIdle
    /\ UploadIdle
    /\ anEndpoint \in AnalyzeEndpoints
    /\ anPc = "idle"
    /\ anReq = NoAnalyzeRequest
    /\ anData = NoAnalyzeData
    /\ anRes = NoAnalyzeResponse
    /\ anFetches = 0
    /\ anOutcome = "none"
    /\ UiIdle
    /\ ClientIdle
    /\ DeadlineIdle
    /\ RoutesIdle

AnalyzeRespond(response, how, t) ==
    /\ t \in now..MaxClock
    /\ now' = t
    /\ anRes' = response
    /\ anOutcome' = how
    /\ anPc' = "done"

\* POST up to the first await after request.json(): destructuring, the
\* validation, the unconfigured endpoint, userPrompt.trim() and the fetch
AnalyzeReceive(body, t) ==
    /\ anPc = "idle"
    /\ anReq' = body
    /\ IF body.kind \in {"malformed", "null"}
       THEN /\ AnalyzeRespond(AnalyzeError(500, "Failed to analyze resume"), "threw", t)
            /\ UNCHANGED <<anFetches>>
       ELSE IF ~Truthy(body.s3Key) \/ ~Truthy(body.userPrompt) \/ ~Truthy(body.conversationId)
       THEN /\ AnalyzeRespond(AnalyzeError(400, "s3Key, userPrompt, and conversationId are required"),
                              "invalid", t)
            /\ UNCHANGED <<anFetches>>
       ELSE IF ~Truthy(anEndpoint)
       THEN /\ AnalyzeRespond(AnalyzeSuccess(CannedAnalysis(body.s3Key,
                                  "Configure NEXT_PUBLIC_ANALYZE_ENDPOINT"), body.s3Key, t, ""),
                              "unconfigured", t)
            /\ UNCHANGED <<anFetches>>
       ELSE IF body.userPrompt.type # "string"
       THEN /\ AnalyzeRespond(AnalyzeFallback(body.s3Key, t), "failed", t)
            /\ UNCHANGED <<anFetches>>
       ELSE /\ anPc' = "fetch"
            /\ anFetches' = anFetches + 1
            /\ UNCHANGED <<now, anRes, anOutcome>>
    /\ UNCHANGED <<anEndpoint, anData>>

\* fetch resolves: a 2xx status goes on to response.json(), any other to
\* response.text()
AnalyzeFetchResolves(status) ==
    /\ anPc = "fetch"
    /\ anPc' = IF status \in 200..299 THEN "body" ELSE "errtext"
    /\ UNCHANGED <<now, anEndpoint, anReq, anData, anRes, anFetches, anOutcome>>

\* fetch rejects: the inner catch answers the fallback
AnalyzeFetchRejects(t) ==
    /\ anPc = "fetch"
    /\ AnalyzeRespond(AnalyzeFallback(anReq.s3Key, t), "failed", t)
    /\ UNCHANGED <<anEndpoint, anReq, anData, anFetches>>

\* response.text() settles, the handler throws: the inner catch answers
AnalyzeErrorTextSettles(t) ==
    /\ anPc = "errtext"
    /\ AnalyzeRespond(AnalyzeFallback(anReq.s3Key, t), "failed", t)
    /\ UNCHANGED <<anEndpoint, anReq, anData, anFetches>>

\* response.json() resolves: JSON.parse of outputText, the mapping, and
\* the answer; a TypeError on the way is caught by the inner catch
AnalyzeBodyParses(data, t) ==
    /\ anPc = "body"
    /\ anData' = data
    /\ IF data.isNull \/ FormatThrows(parsedAnalysis(data.outputText))
       THEN AnalyzeRespond(AnalyzeFallback(anReq.s3Key, t), "failed", t)
       ELSE AnalyzeRespond(AnalyzeSuccess(formattedAnalysis(parsedAnalysis(data.outputText)),
                                          anReq.s3Key, t, ""), "succeeded", t)
    /\ UNCHANGED <<anEndpoint, anReq, anFetches>>

\* response.json() rejects
AnalyzeBodyRejects(t) ==
    /\ anPc = "body"
    /\ AnalyzeRespond(AnalyzeFallback(anReq.s3Key, t), "failed", t)
    /\ UNCHANGED <<anEndpoint, anReq, anData, anFetches>>

AnalyzeNext ==
    \/ \E body \in AnalyzeBodies, t \in 0..MaxClock :
          AnalyzeReceive(body, t) /\ UNCHANGED notAnalyze
    \/ \E status \in Statuses : AnalyzeFetchResolves(status) /\ UNCHANGED notAnalyze
    \/ \E t \in 0..MaxClock : AnalyzeFetchRejects(t) /\ UNCHANGED notAnalyze
    \/ \E t \in 0..MaxClock : AnalyzeErrorTextSettles(t) /\ UNCHANGED notAnalyze
    \/ \E data \in AnalyzePayloads, t \in 0..MaxClock :
          AnalyzeBodyParses(data, t) /\ UNCHANGED notAnalyze
    \/ \E t \in 0..MaxClock : AnalyzeBodyRejects(t) /\ UNCHANGED notAnalyze

AnalyzeSpec == AnalyzeInit /\ [][AnalyzeNext]_vars

\* request.json() gave a value
AnalyzeBodyRead == anReq.kind \in {"null", "number", "object"}

Missing(v) == v.type \in {"undefined", "null"} \/ v = JStr(<<>>)

\* one of the three fields is missing from the body
AnyFieldMissing ==
    \/ anReq.kind \in {"null", "number"}
    \/ Missing(anReq.s3Key)
    \/ Missing(anReq.userPrompt)
    \/ Missing(anReq.conversationId)

\* the analysis carries its five fields
FiveFields ==
    /\ anRes.analysis.insights.kind = "string"
    /\ anRes.analysis.recommendedRoles.kind # "undefined"
    /\ anRes.analysis.missingSkills.kind # "undefined"
    /\ anRes.analysis.projectIdeas.kind # "undefined"
    /\ anRes.analysis.relevantCourses.kind # "undefined"

\* C21: /api/analyze answers 400, without calling the endpoint, when one of
\* s3Key, userPrompt, conversationId is missing; otherwise it answers 200
\* with success true and an analysis of five fields, whatever the endpoint
\* does, with a warning when the endpoint failed; it never answers 500.
C21_AnalyzeAnswers400Or200 ==
    (anPc = "done" /\ AnalyzeBodyRead) =>
        /\ anRes.status # 500
        /\ AnyFieldMissing => (anRes.status = 400 /\ anFetches = 0)
        /\ ~AnyFieldMissing =>
              /\ anRes.status = 200
              /\ anRes.success
              /\ FiveFields
              /\ anOutcome = "failed" => anRes.warning # ""

\* the outputText of a 2xx answer is not parseable JSON
OutputTextUnparseable ==
    /\ anPc = "done"
    /\ anOutcome = "succeeded"
    /\ anData.outputText.type = "string"
    /\ JsonParse(anData.outputText).kind = "SyntaxError"

\* C28: when the endpoint answers 2xx with an outputText that is not
\* parseable JSON, the analysis returned has the raw outputText as its
\* insights and four empty lists.
C28_UnparseableFallsBackToRawText ==
    OutputTextUnparseable =>
        /\ anRes.analysis.insights = AText(anData.outputText.str)
        /\ anRes.analysis.recommendedRoles = AList(<<>>)
        /\ anRes.analysis.missingSkills = AList(<<>>)
        /\ anRes.analysis.projectIdeas = AList(<<>>)
        /\ anRes.analysis.relevantCourses = AList(<<>>)

---------------------------------------------------------------------------
(* The chat interface: handleSendMessage of ChatInterface over the state   *)
(* of ChatProvider, with the /api/chat handler above answering its         *)
(* requests.  React runs the part of an event handler before its first     *)
(* await and the rendering that follows as one step before the next        *)
(* event, so a handler never reads an isTyping older than the state.       *)

\* the number of requests a run of the model sends
MaxSends == 2

\* message.length > 10000
UiMaxMessageLength == 10000

Msg(type, content) == [type |-> type, content |-> content]

\* the texts a user types
InputTexts ==
    {<<>>, Repeat(" ", 2), Chars(<<"h", "i">>),
     Chars(<<" ", "M", "y", " ", "C", "o", "u", "r", "s", "e", "s", " ">>),
     Repeat("a", UiMaxMessageLength + 1)}

\* the ref set when the component mounts
conversationIdRef == SessionToken(0)

\* the body of the fetch
ChatRequestBody(message) ==
    [kind |-> "object", message |-> JStr(message),
     conversationId |-> conversationIdRef,
     settings |-> [type |-> "object", temperature |-> JNum(7), maxTokens |-> JUndef]]

\* what the endpoint behind /api/chat answers while the interface is followed
UiPayloads ==
    {[isNull |-> TRUE, outputText |-> JUndef, response |-> JUndef,
      message |-> JUndef, metadata |-> JUndef],
     NoPayload,
     [isNull |-> FALSE, outputText |-> JStr(Literal("text of outputText")),
      response |-> JUndef, message |-> JUndef,
      metadata |-> JObj(<<"database_table_1", "database_table_2">>)],
     [isNull |-> FALSE, outputText |-> JUndef,
      response |-> JStr(Literal("text of response")), message |-> JUndef,
      metadata |-> JUndef]}

\* `${v}` and string + v
UiText(v) == IF v.type = "string" THEN v.str ELSE Literal("undefined")

\* sources.join(', ')
RECURSIVE JoinSources(_)
JoinSources(xs) ==
    IF xs = <<>> THEN <<>>
    ELSE IF Len(xs) = 1 THEN Literal(xs[1])
    ELSE Literal(xs[1]) \o Literal(", ") \o JoinSources(Tail(xs))

\* responseText: data.response, with the sources of the metadata appended
responseText(data) ==
    IF Truthy(data.metadata) /\ data.metadata.items # <<>>
    THEN JStr(UiText(data.response) \o Literal("\n\n*Sources: ")
                  \o JoinSources(data.metadata.items) \o Literal("*"))
    ELSE data.response

IssueText(error) ==
    JStr(Literal("Sorry, I encountered an issue: ") \o Literal(error)
             \o Literal(". Please try again."))

SorryText == JStr(Literal("Sorry, I encountered an error. Please try again."))

TooLongText ==
    JStr(Literal("Message is too long. Please keep it under 10,000 characters."))

UiInit ==
    /\ env \in Environments
    /\ upstream \in {"answering", "silent"}
    /\ now = 0
    /\ pc = "idle"
    /\ req = NoRequest
    /\ fetchBody = NoFetchBody
    /\ timeoutId = "none"
    /\ lambdaError = "none"
    /\ res = NoResponse
    /\ lambdaData = NoPayload
    /\ outcome = "none"
    /\ fetchCalls = 0
    /\ mockCalls = 0
    /\ NormIdle
    /\ CacheIdle
    /\ SeqIdle
    /\ MockIdle
    /\ ConcIdle
    /\ UploadIdle
    /\ AnalyzeIdle
    /\ inputValue = <<>>
    /\ messages = <<>>
    /\ isTyping = FALSE
    /\ requests = <<>>
    /\ sends = 0
    /\ replies = 0
    /\ completion = "none"
    /\ uiData = NoResponse
    /\ ClientIdle
    /\ DeadlineIdle
    /\ RoutesIdle

\* the invocation of POST that served a request is over
ChatReset ==
    /\ pc' = "idle"
    /\ req' = NoRequest
    /\ fetchBody' = NoFetchBody
    /\ timeoutId' = "none"
    /\ lambdaError' = "none"
    /\ res' = NoResponse
    /\ lambdaData' = NoPayload
    /\ outcome' = "none"
    /\ fetchCalls' = 0
    /\ mockCalls' = 0
    /\ UNCHANGED <<env, upstream, now>>

\* handleInputChange: the input field is disabled while isTyping
handleInputChange(text) ==
    /\ ~isTyping
    /\ inputValue' = text
    /\ UNCHANGED <<messages, isTyping, requests, sends, replies, completion, uiData>>
    /\ UNCHANGED chatVars

\* faulty variant: the typing indicator is not set
handleSendMessageWithoutIndicator ==
    /\ sends < MaxSends
    /\ Len(messages) < 2 * MaxSends + 1
    /\ Trim(inputValue) # <<>>
    /\ ~isTyping
    /\ IF StrLen(Trim(inputValue)) > UiMaxMessageLength
       THEN /\ messages' = Append(messages, Msg("nexai", TooLongText))
            /\ UNCHANGED <<inputValue, isTyping, requests, sends>>
       ELSE /\ messages' = Append(messages, Msg("user", JStr(Trim(inputValue))))
            /\ inputValue' = <<>>
            /\ isTyping' = isTyping
            /\ requests' = Append(requests, [stage |-> "sent",
                                             body |-> ChatRequestBody(Trim(inputValue)),
                                             data |-> NoResponse])
            /\ sends' = sends + 1
    /\ UNCHANGED <<replies, completion, uiData>>
    /\ UNCHANGED chatVars

\* handleSendMessage up to `await fetch('/api/chat', ...)`; it returns at
\* once on an empty message or while isTyping
handleSendMessage ==
    /\ sends < MaxSends
    /\ Len(messages) < 2 * MaxSends + 1
    /\ Trim(inputValue) # <<>>
    /\ ~isTyping
    /\ IF StrLen(Trim(inputValue)) > UiMaxMessageLength
       THEN /\ messages' = Append(messages, Msg("nexai", TooLongText))
            /\ UNCHANGED <<inputValue, isTyping, requests, sends>>
       ELSE /\ messages' = Append(messages, Msg("user", JStr(Trim(inputValue))))
            /\ inputValue' = <<>>
            /\ isTyping' = TRUE
            /\ requests' = Append(requests, [stage |-> "sent",
                                             body |-> ChatRequestBody(Trim(inputValue)),
                                             data |-> NoResponse])
            /\ sends' = sends + 1
    /\ UNCHANGED <<replies, completion, uiData>>
    /\ UNCHANGED chatVars

\* the oldest request reaches the route: POST starts
RequestArrives(t) ==
    /\ requests # <<>>
    /\ requests[1].stage = "sent"
    /\ Receive(requests[1].body, t)
    /\ requests' = [requests EXCEPT ![1].stage = "handling"]
    /\ UNCHANGED <<inputValue, messages, isTyping, sends, replies, completion, uiData>>

\* the catch of handleSendMessage
Catch(path) ==
    /\ isTyping' = FALSE
    /\ messages' = Append(messages, Msg("nexai", SorryText))
    /\ requests' = Tail(requests)
    /\ replies' = replies + 1
    /\ completion' = path
    /\ UNCHANGED <<inputValue, sends, uiData>>

\* the fetch resolves with the answer of POST: the response.ok test
ResponseArrives ==
    /\ requests # <<>>
    /\ requests[1].stage = "handling"
    /\ pc = "done"
    /\ IF Ok(res.status)
       THEN /\ requests' = [requests EXCEPT ![1].stage = "json", ![1].data = res]
            /\ UNCHANGED <<inputValue, messages, isTyping, sends, replies,
                           completion, uiData>>
       ELSE Catch("status")
    /\ ChatReset

\* the platform in front of the route answers for it (502, 504)
GatewayAnswers ==
    /\ requests # <<>>
    /\ requests[1].stage \in {"sent", "handling"}
    /\ Catch("status")
    /\ IF requests[1].stage = "handling" THEN ChatReset ELSE UNCHANGED chatVars

\* the fetch rejects: a network exception
NetworkFails ==
    /\ requests # <<>>
    /\ requests[1].stage \in {"sent", "handling"}
    /\ Catch("exception")
    /\ IF requests[1].stage = "handling" THEN ChatReset ELSE UNCHANGED chatVars

\* response.json() resolves: the rest of the try block
JsonResolves ==
    /\ requests # <<>>
    /\ requests[1].stage = "json"
    /\ uiData' = requests[1].data
    /\ isTyping' = FALSE
    /\ requests' = Tail(requests)
    /\ replies' = replies + 1
    /\ IF requests[1].data.error # ""
       THEN /\ messages' = Append(messages, Msg("nexai", IssueText(requests[1].data.error)))
            /\ completion' = "error body"
       ELSE /\ messages' = Append(messages, Msg("nexai", responseText(requests[1].data)))
            /\ completion' = "success"
    /\ UNCHANGED <<inputValue, sends>>
    /\ UNCHANGED chatVars

\* response.json() rejects
JsonRejects ==
    /\ requests # <<>>
    /\ requests[1].stage = "json"
    /\ Catch("exception")
    /\ UNCHANGED chatVars

UiNext ==
    \/ \E text \in InputTexts : handleInputChange(text) /\ UNCHANGED notUi
    \/ handleSendMessage /\ UNCHANGED notUi
    \/ \E t \in {now} : RequestArrives(t) /\ UNCHANGED notUi
    \/ \E status \in Statuses, t \in {now} : FetchResolves(status, t) /\ UNCHANGED notChat
    \/ \E t \in {now} : FetchRejects(t) /\ UNCHANGED notChat
    \/ \E t \in {now} : TimeoutFires(t) /\ UNCHANGED notChat
    \/ \E data \in UiPayloads, t \in {now} : BodyParses(data, t) /\ UNCHANGED notChat
    \/ \E t \in {now} : BodyRejects(t) /\ UNCHANGED notChat
    \/ \E r \in 0..(NumGenericResponses - 1), t \in {now} :
            MockResolves(r, t) /\ UNCHANGED notChat
    \/ ResponseArrives /\ UNCHANGED notUi
    \/ GatewayAnswers /\ UNCHANGED notUi
    \/ NetworkFails /\ UNCHANGED notUi
    \/ JsonResolves /\ UNCHANGED notUi
    \/ JsonRejects /\ UNCHANGED notUi

UiSpec == UiInit /\ [][UiNext]_vars

\* the body read is the mock fallback of the route
MockFallbackRead ==
    /\ requests # <<>>
    /\ requests[1].stage = "json"
    /\ requests[1].data.status = 200
    /\ requests[1].data.source = "mock"

\* C22: when /api/chat answers 200 with the mock-fallback body, the chat
\* interface appends the `response` text of that body as the assistant's
\* message.
C22_MockFallbackTextIsShown ==
    [][(MockFallbackRead /\ replies' = replies + 1 /\ completion' # "exception")
          => messages' = Append(messages, Msg("nexai", requests[1].data.response))]_vars

UserMessages == {i \in DOMAIN messages : messages[i].type = "user"}

\* every user message but one still awaiting its answer has an assistant
\* message next to it
EachSentMessageAnswered ==
    /\ Cardinality(UserMessages) = sends
    /\ replies + Len(requests) = sends
    /\ \A i \in UserMessages :
          IF i = Len(messages) THEN requests # <<>>
          ELSE messages[i + 1].type = "nexai"

\* a step that completes a request clears the indicator and adds one
\* assistant message
CompletionAddsOneMessage ==
    replies' # replies =>
        /\ replies' = replies + 1
        /\ isTyping
        /\ ~isTyping'
        /\ Len(messages') = Len(messages) + 1
        /\ messages'[Len(messages')].type = "nexai"
        /\ SubSeq(messages', 1, Len(messages)) = messages

\* C29: at most one /api/chat request is outstanding; nothing is sent while
\* the typing indicator is set; the indicator is set when a request is sent
\* and cleared on every completion path; each sent user message gets
\* exactly one assistant message.
C29_OneRequestAtATime ==
    /\ [](/\ Len(requests) <= 1
          /\ isTyping <=> requests # <<>>
          /\ EachSentMessageAnswered)
    /\ [][/\ isTyping => sends' = sends
          /\ sends' # sends => isTyping'
          /\ CompletionAddsOneMessage]_vars

C29_Witness ==
    /\ sends = 2
    /\ replies = 2
    /\ ~isTyping
    /\ completion = "status"
    /\ \E i \in DOMAIN messages : messages[i] = Msg("nexai", SorryText)
    /\ \E i \in DOMAIN messages : messages[i].type = "nexai" /\ messages[i].content = JUndef

---------------------------------------------------------------------------
(* lib/cache.ts, the clients counted: every getCache and setCache call     *)
(* records whether getRedisClient evaluated `new Redis(...)`, whether a    *)
(* client came of it, and which client the call used.                      *)

\* the number of times a run of the model evaluates `new Redis(...)`
MaxConstructions == 2

\* faulty variant: no `if (redisClient) return redisClient`
ConstructsOnEveryCall ==
    /\ Truthy(cacheEnv.UPSTASH_REDIS_REST_URL)
    /\ Truthy(cacheEnv.UPSTASH_REDIS_REST_TOKEN)

\* getRedisClient() reaches `new Redis(...)`
Constructs ==
    /\ redisClient = "null"
    /\ Truthy(cacheEnv.UPSTASH_REDIS_REST_URL)
    /\ Truthy(cacheEnv.UPSTASH_REDIS_REST_TOKEN)

\* the history of one getRedisClient() call
CountClient(constructed) ==
    /\ Constructs => redisAttempts < MaxConstructions
    /\ redisAttempts' = IF Constructs THEN redisAttempts + 1 ELSE redisAttempts
    /\ redisBuilt' = IF Constructs /\ constructed THEN redisBuilt + 1 ELSE redisBuilt
    /\ clientId' = IF Constructs /\ constructed THEN redisBuilt + 1 ELSE clientId
    /\ clientUsed' = IF Constructs /\ constructed THEN redisBuilt + 1 ELSE clientId

ClientInit ==
    /\ cacheEnv \in CacheEnvironments
    /\ redisClient = "null"
    /\ kv = [k \in CacheKeys |-> NoEntry]
    /\ cacheNow = 0
    /\ cacheTicks = 0
    /\ cacheCall = NoCacheCall
    /\ redisAttempts = 0
    /\ redisBuilt = 0
    /\ clientId = 0
    /\ clientUsed = 0
    /\ ChatIdle
    /\ NormIdle
    /\ SeqIdle
    /\ MockIdle
    /\ ConcIdle
    /\ UploadIdle
    /\ AnalyzeIdle
    /\ UiIdle
    /\ DeadlineIdle
    /\ RoutesIdle

ClientNext ==
    \/ \E key \in CacheKeys, constructed \in BOOLEAN, answered \in BOOLEAN :
            getCache(key, constructed, answered) /\ CountClient(constructed)
                /\ UNCHANGED notClient
    \/ \E key \in CacheKeys, value \in CacheValues,
          constructed \in BOOLEAN, answered \in BOOLEAN :
            setCache(key, value, constructed, answered) /\ CountClient(constructed)
                /\ UNCHANGED notClient
    \/ \E seconds \in {1, CacheTTLSeconds - 1} :
            CacheTick(seconds) /\ UNCHANGED clientVars /\ UNCHANGED notClient

ClientSpec == ClientInit /\ [][ClientNext]_vars

\* C25: the cache client is initialized lazily and idempotently: over any
\* sequence of getCache and setCache calls at most one Redis client is
\* constructed, and once constructed the same client is used by every call.
C25_OneClientReused ==
    /\ [](/\ redisBuilt <= 1
          /\ cacheCall.op = "none" => redisAttempts = 0
          /\ redisClient = "null" <=> clientId = 0
          /\ clientUsed = clientId)
    /\ [][clientId # 0 => (clientId' = clientId /\ redisAttempts' = redisAttempts)]_vars

C25_Witness ==
    /\ redisAttempts = 2
    /\ redisBuilt = 1
    /\ clientUsed = 1
    /\ cacheCall.op = "get"
    /\ cacheCall.network = "ok"
    /\ cacheCall.result # JNull

\* a call has found the cache without a client
CacheDisabled == cacheCall.op # "none" /\ redisClient = "null"

\* C26: once the construction of the client failed, or the configuration
\* was missing, on one call, the cache stays disabled: no later call
\* attempts the construction again.
C26_FailedConstructionDisablesCache ==
    [][CacheDisabled => (redisAttempts' = redisAttempts /\ redisClient' = "null")]_vars

---------------------------------------------------------------------------
(* /api/chat before an endpoint that may send its status line and then     *)
(* never finish the body.  The endpoint is answering, silent or stalling;  *)
(* the stalling one lets fetch() resolve and leaves lambdaResponse.json()  *)
(* pending for ever.                                                       *)

StallInit ==
    /\ env \in Environments
    /\ upstream \in {"answering", "silent", "stalling"}
    /\ now = 0
    /\ pc = "idle"
    /\ req = NoRequest
    /\ fetchBody = NoFetchBody
    /\ timeoutId = "none"
    /\ lambdaError = "none"
    /\ res = NoResponse
    /\ lambdaData = NoPayload
    /\ outcome = "none"
    /\ fetchCalls = 0
    /\ mockCalls = 0
    /\ NormIdle
    /\ CacheIdle
    /\ SeqIdle
    /\ MockIdle
    /\ ConcIdle
    /\ UploadIdle
    /\ AnalyzeIdle
    /\ UiIdle
    /\ ClientIdle
    /\ DeadlineIdle
    /\ RoutesIdle

\* fetch() resolves with the status line of a stalling endpoint:
\* clearTimeout, the ok test; lambdaResponse.json() then stays pending
StatusLineArrives(status, t) ==
    /\ pc = "fetch"
    /\ upstream = "stalling"
    /\ now' = t
    /\ timeoutId' = "cleared"
    /\ UNCHANGED <<env, upstream, req, fetchBody, lambdaData, fetchCalls>>
    /\ IF Ok(status)
       THEN /\ pc' = "body"
            /\ UNCHANGED <<lambdaError, res, outcome, mockCalls>>
       ELSE /\ CatchLambdaError("Error")
            /\ outcome' = "status"

\* the bodies posted: those that say nothing about settings
StallBodies == {body \in RequestBodies : body.settings = NoSettings}

StallNext ==
    \/ \E body \in StallBodies, t \in now..MaxClock :
            Receive(body, t) /\ UNCHANGED notChat
    \/ \E status \in Statuses, t \in now..MaxClock :
            FetchResolves(status, t) /\ UNCHANGED notChat
    \/ \E status \in Statuses, t \in now..MaxClock :
            StatusLineArrives(status, t) /\ UNCHANGED notChat
    \/ \E t \in now..MaxClock : FetchRejects(t) /\ UNCHANGED notChat
    \/ \E t \in now..MaxClock : TimeoutFires(t) /\ UNCHANGED notChat
    \/ \E data \in Payloads, t \in now..MaxClock :
            upstream = "answering" /\ BodyParses(data, t) /\ UNCHANGED notChat
    \/ \E t \in now..MaxClock :
            upstream = "answering" /\ BodyRejects(t) /\ UNCHANGED notChat
    \/ \E r \in 0..(NumGenericResponses - 1), t \in now..MaxClock :
            MockResolves(r, t) /\ UNCHANGED notChat

StallSpec == StallInit /\ [][StallNext]_vars

\* The event loop runs every callback that is due, and an endpoint that
\* answers does answer: whatever can happen next does happen.
StallFairSpec ==
    /\ StallSpec
    /\ WF_vars(\E status \in Statuses, t \in now..MaxClock :
                    FetchResolves(status, t) /\ UNCHANGED notChat)
    /\ WF_vars(\E status \in Statuses, t \in now..MaxClock :
                    StatusLineArrives(status, t) /\ UNCHANGED notChat)
    /\ WF_vars(\E t \in now..MaxClock : TimeoutFires(t) /\ UNCHANGED notChat)
    /\ WF_vars(\E data \in Payloads, t \in now..MaxClock :
                    upstream = "answering" /\ BodyParses(data, t) /\ UNCHANGED notChat)
    /\ WF_vars(\E r \in 0..(NumGenericResponses - 1), t \in now..MaxClock :
                    MockResolves(r, t) /\ UNCHANGED notChat)

\* C23: every validated chat request is eventually answered, whatever the
\* endpoint does, a 2xx status line followed by a body that never ends
\* included: the timeout bounds the whole exchange.
C23_ValidatedRequestIsAnswered ==
    Validated ~> pc = "done"

---------------------------------------------------------------------------
(* /api/chat against the clock: the abort timer of the upstream call, the  *)
(* delay of the mock, and the time the platform gives the route.           *)

\* export const maxDuration = 60 (seconds)
maxDuration == 60

MaxDurationMs == maxDuration * 1000

\* process.env.LAMBDA_TIMEOUT_MS || '55000'
DefaultLambdaTimeoutMs == 55000

\* 1000 + Math.random() * 2000
MockDelayBase == 1000

MockDelaySpread == 2000

\* the settings of LAMBDA_TIMEOUT_MS a deployment may carry
TimeoutSettings ==
    {JUndef, JStr(<<>>)}
    \cup {JStr(Literal(s)) : s \in {"55000", "1000", "57000", "58000", "60000",
                                     "120000", "-1", "55s"}}

\* Number(text): the number a decimal text denotes, NaN for any other
NumberOf(text) ==
    CASE text = "55000"  -> Num(55000)
      [] text = "1000"   -> Num(1000)
      [] text = "57000"  -> Num(57000)
      [] text = "58000"  -> Num(58000)
      [] text = "60000"  -> Num(60000)
      [] text = "120000" -> Num(120000)
      [] text = "-1"     -> Num(0 - 1)
      [] OTHER           -> NaN

\* Number(process.env.LAMBDA_TIMEOUT_MS || '55000')
LambdaTimeoutOf(setting) ==
    IF Truthy(setting) THEN NumberOf(setting.str[1].ch)
    ELSE Num(DefaultLambdaTimeoutMs)

\* setTimeout(callback, delay): a delay that is NaN or below 1 is 1
TimerDelay(delay) == IF delay.nan \/ delay.n < 1 THEN 1 ELSE delay.n

\* the delays of the mock: 1000 + Math.random() * 2000, Math.random() < 1
MockDelays ==
    {MockDelayBase + (k * MockDelaySpread) \div 8 : k \in 0..7}
    \cup {MockDelayBase + MockDelaySpread - 1}

\* the times at which an endpoint that fails does so
FailureTimes == {0, 1000, 54999}

DeadlineInit ==
    /\ timeoutEnv \in TimeoutSettings
    /\ dlPc = "idle"
    /\ lambdaTimeoutMs = NaN
    /\ elapsed = 0
    /\ ChatIdle
    /\ NormIdle
    /\ CacheIdle
    /\ SeqIdle
    /\ MockIdle
    /\ ConcIdle
    /\ UploadIdle
    /\ AnalyzeIdle
    /\ UiIdle
    /\ ClientIdle
    /\ RoutesIdle

\* setTimeout(() => controller.abort(), lambdaTimeoutMs) and the fetch
ArmTimeout ==
    /\ dlPc = "idle"
    /\ lambdaTimeoutMs' = LambdaTimeoutOf(timeoutEnv)
    /\ dlPc' = "fetch"
    /\ UNCHANGED <<timeoutEnv, elapsed>>

\* the endpoint fails before the timer is due: the catch calls the mock
UpstreamFailsAt(ms) ==
    /\ dlPc = "fetch"
    /\ ms < TimerDelay(lambdaTimeoutMs)
    /\ elapsed' = ms
    /\ dlPc' = "mock"
    /\ UNCHANGED <<timeoutEnv, lambdaTimeoutMs>>

\* the timer is due: controller.abort(), the catch calls the mock
AbortFires ==
    /\ dlPc = "fetch"
    /\ elapsed' = TimerDelay(lambdaTimeoutMs)
    /\ dlPc' = "mock"
    /\ UNCHANGED <<timeoutEnv, lambdaTimeoutMs>>

\* the delay of the mock is over: the fallback is returned
MockDelayEnds(ms) ==
    /\ dlPc = "mock"
    /\ elapsed' = elapsed + ms
    /\ dlPc' = "done"
    /\ UNCHANGED <<timeoutEnv, lambdaTimeoutMs>>

DeadlineNext ==
    \/ ArmTimeout /\ UNCHANGED notDeadline
    \/ \E ms \in FailureTimes : UpstreamFailsAt(ms) /\ UNCHANGED notDeadline
    \/ AbortFires /\ UNCHANGED notDeadline
    \/ \E ms \in MockDelays : MockDelayEnds(ms) /\ UNCHANGED notDeadline

DeadlineSpec == DeadlineInit /\ [][DeadlineNext]_vars

\* C24: the upstream timeout, 55000 ms or the configured LAMBDA_TIMEOUT_MS,
\* is below the 60 seconds the route is given, and the abort followed by
\* the mock fallback (1000 to 3000 ms) is over before those 60 seconds.
C24_TimeoutBelowDeadline ==
    /\ dlPc # "idle" => TimerDelay(lambdaTimeoutMs) < MaxDurationMs
    /\ dlPc = "done" => elapsed < MaxDurationMs

---------------------------------------------------------------------------
(* The upload routes together.  /api/upload-proxy is the handler above,    *)
(* called again and again; /api/upload-url and /api/upload are followed    *)
(* a call at a time.  Every object written and every presigned URL issued  *)
(* is recorded with its key and with the type and size of its file.        *)
(* Date.now() need not have moved between two calls.  A key is the list    *)
(* of its parts: resumes, conversation, timestamp, extension.              *)

\* the number of objects written and URLs issued in a run of the model
MaxUploads == 2

\* expiresIn: 300
PresignedExpirySeconds == 300

\* `resumes/${conversationId}/${timestamp}.${fileExtension}`
KeyPath(conversationId, timestamp, fileExtension) ==
    <<"resumes", conversationId, ToString(timestamp), fileExtension>>

Upload(route, how, key, type, size) ==
    [route |-> route, how |-> how, key |-> key, type |-> type, size |-> size]

RouteError(route, status, text) ==
    [route |-> route, status |-> status, error |-> text, success |-> FALSE, key |-> <<>>]

RouteSuccess(route, key) ==
    [route |-> route, status |-> 200, error |-> "", success |-> TRUE, key |-> key]

\* the forms posted to /api/upload-proxy
RoutesForms ==
    {NoForm}
    \cup
    [parsed : {TRUE},
     file : {NoField}
            \cup {FileField(type, size, <<"cv", "pdf">>) :
                     type \in {"application/pdf", "image/png"},
                     size \in {MaxUploadBytes, MaxUploadBytes + 1}},
     conversationId : {TextField("conv-1")}]

\* the bodies posted to /api/upload-url: a rejection of request.json(),
\* null, or an object; a missing field is the empty text.  size is the
\* size of the file the caller holds: the body does not carry it.
UploadUrlBodies ==
    {[kind |-> k, fileName |-> <<>>, fileType |-> "", conversationId |-> "", size |-> 0] :
        k \in {"malformed", "null"}}
    \cup
    [kind : {"object"},
     fileName : {<<>>, <<"cv", "pdf">>},
     fileType : {"", "application/pdf", "image/png"},
     conversationId : {"", "conv-1"},
     size : {MaxUploadBytes + 1}]

\* the bodies posted to /api/upload; contentType "undefined" when the body
\* has none, key <<>> when it has none, data of size 0 when it has none
UploadBodies ==
    {[kind |-> k, size |-> 0, key |-> <<>>, contentType |-> "undefined"] :
        k \in {"malformed", "null"}}
    \cup
    [kind : {"object"},
     size : {0, MaxUploadBytes + 1},
     key : {<<>>, <<"avatars", "me", "png">>},
     contentType : {"undefined", "image/png"}]

RoutesInit ==
    /\ uploads = <<>>
    /\ routeRes = NoRouteResponse
    /\ upPc = "idle"
    /\ upForm = NoForm
    /\ upKey = NoKeyBuilt
    /\ upRes = NoUploadResponse
    /\ s3Puts = 0
    /\ s3Failed = FALSE
    /\ bucket = {}
    /\ ChatIdle
    /\ NormIdle
    /\ CacheIdle
    /\ SeqIdle
    /\ MockIdle
    /\ ConcIdle
    /\ AnalyzeIdle
    /\ UiIdle
    /\ ClientIdle
    /\ DeadlineIdle

\* /api/upload-proxy has answered: its object, if it wrote one, is
\* recorded, and the route is ready for its next call
ProxyReturns ==
    /\ upPc = "done"
    /\ uploads' =
          IF upRes.status = 200
          THEN Append(uploads,
                      Upload("upload-proxy", "written",
                             KeyPath(upKey.conversationId, upKey.timestamp,
                                     upKey.fileExtension),
                             TypeOf(upForm.file), upForm.file.size))
          ELSE uploads
    /\ upPc' = "idle"
    /\ upForm' = NoForm
    /\ upKey' = NoKeyBuilt
    /\ upRes' = NoUploadResponse
    /\ UNCHANGED <<now, routeRes, s3Puts, s3Failed, bucket>>

\* POST of /api/upload-url.  signed: getSignedUrl resolved.
UploadUrlPost(body, t, signed) ==
    /\ now' = t
    /\ IF body.kind \in {"malformed", "null"}
       THEN /\ routeRes' = RouteError("upload-url", 500, "Failed to generate upload URL")
            /\ UNCHANGED uploads
       ELSE IF body.fileName = <<>> \/ body.fileType = "" \/ body.conversationId = ""
       THEN /\ routeRes' = RouteError("upload-url", 400,
                                      "fileName, fileType, and conversationId are required")
            /\ UNCHANGED uploads
       ELSE IF ~TypeAllowed(body.fileType)
       THEN /\ routeRes' = RouteError("upload-url", 400,
                  "Invalid file type. Only PDF, Word documents, and text files are allowed.")
            /\ UNCHANGED uploads
       ELSE IF ~signed
       THEN /\ routeRes' = RouteError("upload-url", 500, "Failed to generate upload URL")
            /\ UNCHANGED uploads
       ELSE /\ routeRes' = RouteSuccess("upload-url",
                  KeyPath(body.conversationId, t, body.fileName[Len(body.fileName)]))
            /\ uploads' = Append(uploads,
                  Upload("upload-url", "presigned",
                         KeyPath(body.conversationId, t, body.fileName[Len(body.fileName)]),
                         body.fileType, body.size))
    /\ UNCHANGED uploadVars

\* POST of /api/upload.  sent: s3Client.send(command) resolved.
UploadPost(body, t, sent) ==
    /\ now' = t
    /\ IF body.kind \in {"malformed", "null"}
       THEN /\ routeRes' = RouteError("upload", 500, "Failed to upload to S3")
            /\ UNCHANGED uploads
       ELSE IF body.size = 0 \/ body.key = <<>>
       THEN /\ routeRes' = RouteError("upload", 400, "Data and key are required")
            /\ UNCHANGED uploads
       ELSE IF ~sent
       THEN /\ routeRes' = RouteError("upload", 500, "Failed to upload to S3")
            /\ UNCHANGED uploads
       ELSE /\ routeRes' = RouteSuccess("upload", body.key)
            /\ uploads' = Append(uploads,
                  Upload("upload", "written", body.key,
                         IF body.contentType = "undefined" THEN "application/json"
                         ELSE body.contentType,
                         body.size))
    /\ UNCHANGED uploadVars

RoutesNext ==
    \/ \E form \in RoutesForms, t \in now..MaxClock :
            Len(uploads) < MaxUploads /\ s3Puts < MaxUploads
                /\ UploadReceive(form, t) /\ UNCHANGED notUpload
    \/ \E t \in now..MaxClock : BufferResolves(t) /\ UNCHANGED notUpload
    \/ \E t \in now..MaxClock : BufferRejects(t) /\ UNCHANGED notUpload
    \/ \E t \in now..MaxClock : SendResolves(t) /\ UNCHANGED notUpload
    \/ \E t \in now..MaxClock : SendRejects(t) /\ UNCHANGED notUpload
    \/ ProxyReturns /\ UNCHANGED notRoutes
    \/ \E body \in UploadUrlBodies, t \in now..MaxClock, signed \in BOOLEAN :
            Len(uploads) < MaxUploads /\ UploadUrlPost(body, t, signed)
                /\ UNCHANGED notRoutes
    \/ \E body \in UploadBodies, t \in now..MaxClock, sent \in BOOLEAN :
            Len(uploads) < MaxUploads /\ UploadPost(body, t, sent)
                /\ UNCHANGED notRoutes

RoutesSpec == RoutesInit /\ [][RoutesNext]_vars

\* C27: the S3 key of an upload is unique: any two uploads made through
\* /api/upload-proxy or /api/upload-url, two for the same conversation and
\* extension at once included, get different keys.
C27_UploadKeysAreUnique ==
    \A i, j \in DOMAIN uploads :
        (/\ i # j
         /\ uploads[i].route \in {"upload-proxy", "upload-url"}
         /\ uploads[j].route \in {"upload-proxy", "upload-url"})
            => uploads[i].key # uploads[j].key

\* C30: over /api/upload-proxy, /api/upload-url and /api/upload, no object
\* is written to S3 and no presigned write URL is issued for a file whose
\* type is outside the allowed set or whose size exceeds 10 MB, and the key
\* always lies under resumes/.
C30_OnlyValidFilesUnderResumes ==
    \A i \in DOMAIN uploads :
        /\ TypeAllowed(uploads[i].type)
        /\ uploads[i].size <= MaxUploadBytes
        /\ uploads[i].key[1] = "resumes"

===========================================================================
